---- MODULE Spec2Model ----
(***************************************************************************)
(* mssqlcopy: the per-table copy pipeline (pkg/copy), its loader           *)
(* (pkg/mssql/bulk.go), the store calls it makes (pkg/mssql/db.go) and the *)
(* chunked scheduler (pkg/cli).                                            *)
(***************************************************************************)
EXTENDS Integers, Sequences, FiniteSets, TLC

(* ---------------- bounds of the model ---------------- *)
\* tables of one job (len(tables) in Copy)
MaxTables == 3
\* largest value of the parrallel flag
MaxParallel == 2
\* rows of one source table
MaxRows == 3
\* rows the target table holds before the copy
MaxOldRows == 1
\* foreign keys referencing one table
MaxFks == 2
\* capacity of dataChan (1000 in the code, scaled down)
DataChanCap == 1
\* BulkInsert.commitCount (50_000 in the code, scaled down)
commitCount == 2
\* largest commit threshold of a loader used on its own
MaxCommitCount == 3
\* successful Insert calls on a loader used on its own
MaxInserts == 5
\* explicit Commit calls on a loader used on its own
MaxCommitCalls == 2
\* capacity of eventChan (1000 in the code, scaled down)
EventChanCap == 2
\* tables whose events a Monitor used on its own receives
MaxMonTables == 2
\* events sent to a Monitor used on its own
MaxEvents == 4
\* atomic expressions and connector tokens of a filter text
MaxItems == 5
\* Rollback calls on a loader used on its own
MaxRollbacks == 1
\* calls on a loader used on its own that return an error
MaxFailedCalls == 2
\* concurrent callers of GetSchemaDefinition on one store
MaxCallers == 3
\* length of a list handed to chunkBy on its own
MaxListLen == 4

(* ---------------- values ---------------- *)
Columns == {"a", "b"}
\* DATA_TYPE strings; "" is also what a Go map returns for a missing key
TypeNames == {"", "int", "text"}
\* map[string]string: a function from a set of columns to type names
Schemas == UNION {[D -> TypeNames] : D \in SUBSET Columns}

\* targetSchema[column] of Go: the zero value "" for a missing key
MapGet(m, k) == IF k \in DOMAIN m THEN m[k] ELSE ""

\* mutant: the type names are not compared
compareSchemas_NoTypes(sourceSchema, targetSchema) ==
    IF Cardinality(DOMAIN sourceSchema) # Cardinality(DOMAIN targetSchema)
    THEN FALSE
    ELSE \A column \in DOMAIN sourceSchema : column \in DOMAIN targetSchema

compareSchemas(sourceSchema, targetSchema) ==
    IF Cardinality(DOMAIN sourceSchema) # Cardinality(DOMAIN targetSchema)
    THEN FALSE
    ELSE \A column \in DOMAIN sourceSchema :
            MapGet(targetSchema, column) = sourceSchema[column]

\* what the spec calls compatible: same column set, same type per column
Compatible(A, B) == DOMAIN A = DOMAIN B /\ \A c \in DOMAIN A : A[c] = B[c]

(* ---------------- foreign keys (ForeingKeyConstraint) ---------------- *)
\* the n-th constraint referencing table t, as the store holds it
FkOf(t, n, disabled) ==
    [Name |-> n, Schema |-> "dbo", Table |-> "child", Column |-> "pid",
     ReferencedSchema |-> "dbo", ReferencedTable |-> t, ReferencedColumn |-> "id",
     NoCheck |-> disabled]

\* the initial sets of foreign keys referencing t: names 1..n, each enabled or disabled
FkSets(t) ==
    UNION {{{FkOf(t, n, d[n]) : n \in 1..k} : d \in [1..k -> BOOLEAN]} : k \in 0..MaxFks}

FkNames(S) == {fk.Name : fk \in S}

RECURSIVE SetToSeqByName(_)
\* rows of GetReferencedForeignKeys, in name order
SetToSeqByName(S) ==
    IF S = {} THEN <<>>
    ELSE LET m == CHOOSE fk \in S : \A o \in S : fk.Name <= o.Name
         IN <<m>> \o SetToSeqByName(S \ {fk \in S : fk.Name = m.Name})

\* the constraint the store holds after AddForeignKey's ALTER TABLE ... WITH NOCHECK
\* ADD CONSTRAINT: @column is bound to foreignKey.Table and @referenced_column to
\* foreignKey.Column; a constraint added WITH NOCHECK is enabled
AddedConstraint(foreignKey) ==
    [Name |-> foreignKey.Name, Schema |-> foreignKey.Schema, Table |-> foreignKey.Table,
     Column |-> foreignKey.Table,
     ReferencedSchema |-> foreignKey.ReferencedSchema,
     ReferencedTable |-> foreignKey.ReferencedTable,
     ReferencedColumn |-> foreignKey.Column,
     NoCheck |-> FALSE]

SeqToSet(s) == {s[k] : k \in 1..Len(s)}

\* mutant: only the first constraint is added back
AddForeignKeys_FirstOnly(fkSet, foreignKeys, failAt) ==
    fkSet \cup {AddedConstraint(foreignKeys[k]) :
                    k \in {j \in 1..Len(foreignKeys) : j < failAt /\ j <= 1}}

\* AddForeignKeys: the constraints before position failAt are added
AddForeignKeys(fkSet, foreignKeys, failAt) ==
    fkSet \cup {AddedConstraint(foreignKeys[k]) :
                    k \in {j \in 1..Len(foreignKeys) : j < failAt}}

\* mutant: no constraint is dropped
DropReferencedForeignKeys_None(fkSet, failAt) == fkSet

\* DropReferencedForeignKeys: the constraints before position failAt are dropped
DropReferencedForeignKeys(fkSet, failAt) ==
    LET foreingKeys == SetToSeqByName(fkSet)
    IN fkSet \ {foreingKeys[k] : k \in {j \in 1..Len(foreingKeys) : j < failAt}}

(* ---------------- BulkInsert (the loader) ---------------- *)
\* bi: [commitCount, count, stmt, tx] (stmt, tx: the field is non-nil)
\* db: the target table in the store: [rows, fks, pending, txOpen, leaked, txs]
\* (pending: the rows of the open transaction; txs: the committed transactions)
NewBulkInsert == [commitCount |-> commitCount, count |-> 0, stmt |-> FALSE, tx |-> FALSE]

\* the call that returns an error: db.BeginTx, tx.Prepare, stmt.ExecContext(row),
\* stmt.Exec() (the flush), stmt.Close, tx.Commit
CommitFaults == {"none", "flush", "close", "commit"}

getStmt(bi, db, fault) ==
    IF ~bi.stmt
    THEN IF fault = "begin" THEN [bi |-> bi, db |-> db, err |-> TRUE]
         ELSE IF fault = "prepare"
              THEN [bi |-> bi, db |-> [db EXCEPT !.leaked = @ + 1], err |-> TRUE]
              ELSE [bi |-> [bi EXCEPT !.stmt = TRUE, !.tx = TRUE],
                    db |-> [db EXCEPT !.txOpen = TRUE, !.pending = <<>>],
                    err |-> FALSE]
    ELSE [bi |-> bi, db |-> db, err |-> FALSE]

\* bi.stmt was prepared in a transaction that has ended (rolled back, or its
\* commit failed): database/sql fails every call on it with ErrTxDone
StaleStmt(bi, db) == bi.stmt /\ ~db.txOpen

\* the transactions the loader has begun that are neither committed nor rolled
\* back: the one of bi.tx and those whose tx.Prepare failed
OpenTransactions(db) == db.leaked + (IF db.txOpen THEN 1 ELSE 0)

BulkCommit(bi, db, fault) ==
    IF ~bi.stmt THEN [bi |-> bi, db |-> db, err |-> FALSE]
    ELSE IF fault \in {"flush", "close"} \/ StaleStmt(bi, db)
         THEN [bi |-> bi, db |-> db, err |-> TRUE]
    ELSE IF fault = "commit"
         THEN [bi |-> bi, db |-> [db EXCEPT !.pending = <<>>, !.txOpen = FALSE],
               err |-> TRUE]
    ELSE [bi |-> [bi EXCEPT !.count = 0, !.stmt = FALSE, !.tx = FALSE],
          db |-> [db EXCEPT !.rows = @ \o db.pending, !.pending = <<>>,
                            !.txOpen = FALSE, !.txs = Append(@, db.pending)],
          err |-> FALSE]

\* mutant: the threshold never triggers a commit
ThresholdReached_Never(bi) == FALSE

\* if bi.count%bi.commitCount == 0
ThresholdReached(bi) == bi.count % bi.commitCount = 0

BulkInsert_Insert(bi, db, row, fault) ==
    LET s == getStmt(bi, db, fault)
    IN IF s.err THEN s
       ELSE IF fault = "exec" \/ StaleStmt(s.bi, s.db) THEN [s EXCEPT !.err = TRUE]
       ELSE LET bi2 == [s.bi EXCEPT !.count = @ + 1]
                db2 == [s.db EXCEPT !.pending = Append(@, row)]
            IN IF ThresholdReached(bi2)
               THEN BulkCommit(bi2, db2, fault)
               ELSE [bi |-> bi2, db |-> db2, err |-> FALSE]

\* Rollback: an error without effect when bi.tx is nil, else tx.Rollback()
BulkRollback(bi, db) ==
    IF ~bi.tx THEN db
    ELSE [db EXCEPT !.pending = <<>>, !.txOpen = FALSE]

\* the faults that change the outcome of the call
InsertFaultsOf(bi) ==
    {"none", "exec"}
      \cup (IF ~bi.stmt THEN {"begin", "prepare"} ELSE {})
      \cup (IF (bi.count + 1) % bi.commitCount = 0 THEN {"flush", "close", "commit"} ELSE {})
CommitFaultsOf(bi) == IF bi.stmt THEN CommitFaults ELSE {"none"}

(* ---------------- chunkBy ---------------- *)
RECURSIVE chunkByLoop(_, _, _)
chunkByLoop(items, chunkSize, chunks) ==
    IF chunkSize < Len(items)
    THEN chunkByLoop(SubSeq(items, chunkSize + 1, Len(items)), chunkSize,
                     Append(chunks, SubSeq(items, 1, chunkSize)))
    ELSE Append(chunks, items)

\* mutant: the list is not partitioned
chunkBy_OneChunk(items, chunkSize) == <<items>>

chunkBy(items, chunkSize) == chunkByLoop(items, chunkSize, <<>>)

(* ---------------- rows ---------------- *)
\* the k-th row the source yields; a row the target held before the copy
Row(k) == <<k>>
OldRow == <<0>>
\* what RowIterator.Next returns besides the error: a row, the empty slice at
\* end of data, nil on a Scan error
EmptyValues == [isNil |-> FALSE, cols |-> <<>>]
NilValues == [isNil |-> TRUE, cols |-> <<>>]
RowValues(k) == [isNil |-> FALSE, cols |-> Row(k)]

\* mutant: the reader loop ends on nil only
ReaderBreaks_NilOnly(values) == values.isNil

\* if len(values) == 0 { break }
ReaderBreaks(values) == Len(values.cols) = 0

\* mutant: the destructive setup runs for every row
FirstRow_Always(i) == TRUE

\* if i == 0 (the writer's first row)
FirstRow(i) == i = 0

\* _ = append(ct.errs, err): the result of append is discarded, ct.errs keeps
\* its length-0, capacity-0 slice
RecordErr(errs, err) == errs

\* Wait's result once wg.Wait() has returned
WaitResult(errs) == IF Len(errs) > 0 THEN "error" ELSE "nil"

\* mutant: Wait returns when one stage is done
WaitGroupDone_OneStage(wg) == wg <= 1

\* wg.Wait() returns when the counter is zero
WaitGroupDone(wg) == wg = 0

\* mutant: the table is not emptied
EmptyTable_Keep(rows) == rows

\* TRUNCATE TABLE
EmptyTable(rows) == <<>>

\* SelectFrom's statement names the target's columns on the source table: the
\* store executes it only when it names a column and the source table has every
\* column it names
SelectColumnsExist(columns, sourceSchema) ==
    columns # {} /\ columns \subseteq DOMAIN sourceSchema

(* ---------------- strings and TableRef ---------------- *)
\* a string is the sequence of its bytes
Str_dbo == <<100, 98, 111>>
\* the table names of a job: "t", "t2", "v", "w", ...
TableName(t) == IF t = 2 THEN <<116, 50>> ELSE <<115 + t>>

RECURSIVE DoubleClosingBrackets(_)
\* strings.Replace(s, "]", "]]", -1)
DoubleClosingBrackets(s) ==
    IF s = <<>> THEN <<>>
    ELSE (IF Head(s) = 93 THEN <<93, 93>> ELSE <<Head(s)>>)
            \o DoubleClosingBrackets(Tail(s))

\* TSQLQuoter.ID of go-mssqldb: [name], a closing bracket doubled
QuoterID(s) == <<91>> \o DoubleClosingBrackets(s) \o <<93>>

\* TableRef.String(): quoted schema, '.', quoted table
TableRefString(ref) == QuoterID(ref.Schema) \o <<46>> \o QuoterID(ref.Table)

\* the TableRef of the t-th table of the job
TableRefOf(t) == [Schema |-> Str_dbo, Table |-> TableName(t)]

RECURSIVE StringLess(_, _)
\* a < b of Go strings: bytewise lexical order
StringLess(a, b) ==
    IF b = <<>> THEN FALSE
    ELSE IF a = <<>> THEN TRUE
    ELSE IF Head(a) # Head(b) THEN Head(a) < Head(b)
    ELSE StringLess(Tail(a), Tail(b))

\* mutant: the keys ordered by the unquoted table name
RECURSIVE SortStrings_Unquoted(_)
SortStrings_Unquoted(keys) ==
    IF keys = {} THEN <<>>
    ELSE LET least == CHOOSE k \in keys :
                         \A o \in keys \ {k} :
                            StringLess(SubSeq(k, 8, Len(k) - 1), SubSeq(o, 8, Len(o) - 1))
         IN <<least>> \o SortStrings_Unquoted(keys \ {least})

RECURSIVE SortStrings(_)
\* sort.Strings of the keys of a map: the keys in ascending order
SortStrings(keys) ==
    IF keys = {} THEN <<>>
    ELSE LET least == CHOOSE k \in keys : \A o \in keys \ {k} : StringLess(k, o)
         IN <<least>> \o SortStrings(keys \ {least})

(* ---------------- Monitor ---------------- *)
\* an Event: kind is the Go type, n is RowsCopied or TotalRows
Event(kind, table, n) == [kind |-> kind, Table |-> table, n |-> n]

\* NewProgressReporter; err: the reporter holds an error
NewProgressReporter(table) ==
    [RowTotal |-> 0, RowsCopied |-> 0, Table |-> table, done |-> FALSE, err |-> FALSE]

\* NewMonitor. Besides the fields of Monitor: pc ("run", "exited", or "detached" for
\* a sink whose consumer is outside the model and always ready), result (what Run
\* returned), exit (the return statement taken), exitRenders (renders on the way
\* out), tickStoppedAtExitRender, last (the event consumed last), w (what was
\* written: the lines of ci mode, the last frame of interactive mode)
NewMonitor(ci) ==
    [ci |-> ci, monitors |-> <<>>, tickerStopped |-> FALSE,
     lastRender |-> [managedLines |-> 0, rowsCopied |-> <<>>],
     sortedTableKeys |-> <<>>,
     pc |-> "run", result |-> "none", exit |-> "none", exitRenders |-> 0,
     tickStoppedAtExitRender |-> FALSE, last |-> Event("none", TableRefOf(1), 0),
     w |-> [lines |-> <<>>, painted |-> FALSE,
            frame |-> [cleared |-> 0, header |-> <<>>, bars |-> <<>>]]]

DetachedMonitor == [NewMonitor(FALSE) EXCEPT !.pc = "detached"]

\* m with key mapped to v
MapPut(m, key, v) == [k \in DOMAIN m \cup {key} |-> IF k = key THEN v ELSE m[k]]

RECURSIVE renderCi(_, _)
\* the ci branch of render, from position k of sortedTableKeys on
renderCi(m, k) ==
    IF k > Len(m.sortedTableKeys) THEN m
    ELSE LET key == m.sortedTableKeys[k]
             line == [key |-> key, copied |-> m.monitors[key].RowsCopied,
                      total |-> m.monitors[key].RowTotal]
             written == [m EXCEPT !.w.lines = Append(@, line),
                                  !.lastRender.rowsCopied =
                                      MapPut(@, key, m.monitors[key].RowsCopied)]
         IN IF m.monitors[key].RowTotal = 0 THEN renderCi(m, k + 1)
            ELSE IF key \notin DOMAIN m.lastRender.rowsCopied
                 THEN renderCi(written, k + 1)
            ELSE IF m.lastRender.rowsCopied[key] < m.monitors[key].RowsCopied
                 THEN renderCi(written, k + 1)
            ELSE renderCi(m, k + 1)

\* the interactive branch of render: clear the managed lines, write the header
\* and one bar (or failure line) per sorted key
renderInteractive(m) ==
    LET n == Len(m.sortedTableKeys)
        bars == [k \in 1..n |->
                    LET bar == m.monitors[m.sortedTableKeys[k]]
                    IN [label |-> TableRefString(bar.Table), failed |-> bar.err]]
    IN [m EXCEPT !.w.frame = [cleared |-> m.lastRender.managedLines,
                              header |-> m.sortedTableKeys, bars |-> bars],
                 !.w.painted = TRUE,
                 !.lastRender.managedLines = 2 + 2 * n]

\* mutant: the ci branch writes a line at every render
render_AlwaysWrites(m) ==
    IF m.ci
    THEN renderCi([m EXCEPT !.lastRender.rowsCopied = <<>>], 1)
    ELSE renderInteractive(m)

render(m) == IF m.ci THEN renderCi(m, 1) ELSE renderInteractive(m)

\* return fmt.Errorf(...)
ReturnError(m) == [m EXCEPT !.pc = "exited", !.result = "error", !.exit = "error"]

\* mutant: the loop goes on without the reporter
NoMonitorFound_Ignored(m) == m

\* return fmt.Errorf("no monitor found for table %s", ...)
NoMonitorFound(m) == ReturnError(m)

\* mutant: the all-done exit does not render
RenderAndReturn_NoRender(m, exit) ==
    [m EXCEPT !.pc = "exited", !.result = "nil", !.exit = exit]

\* m.render(); return nil
RenderAndReturn(m, exit) ==
    [render(m) EXCEPT !.pc = "exited", !.result = "nil", !.exit = exit,
                      !.exitRenders = @ + 1,
                      !.tickStoppedAtExitRender = m.tickerStopped]

\* anyRunning of the task-finished and task-failed cases
anyRunning(monitors) == \E k \in DOMAIN monitors : ~monitors[k].done

\* if !anyRunning { m.renderTicker.Stop(); m.render(); return nil }
ExitWhenNoneRunning(m) ==
    IF ~anyRunning(m.monitors)
    THEN RenderAndReturn([m EXCEPT !.tickerStopped = TRUE], "alldone")
    ELSE m

\* the body of case event := <-m.eventChan
HandleEvent(m, e) ==
    LET key == TableRefString(e.Table)
        found == key \in DOMAIN m.monitors
    IN CASE e.kind = "Progress" ->
              IF ~found THEN NoMonitorFound(m)
              ELSE [m EXCEPT !.monitors[key].RowsCopied = @ + e.n]
         [] e.kind = "Started" ->
              IF found THEN ReturnError(m)
              ELSE LET monitors == MapPut(m.monitors, key, NewProgressReporter(e.Table))
                   IN [m EXCEPT !.monitors = monitors,
                                !.sortedTableKeys = SortStrings(DOMAIN monitors)]
         [] e.kind = "Count" ->
              IF ~found THEN NoMonitorFound(m)
              ELSE [m EXCEPT !.monitors[key].RowTotal = e.n]
         [] e.kind = "Finished" ->
              IF ~found THEN NoMonitorFound(m)
              ELSE ExitWhenNoneRunning([m EXCEPT !.monitors[key].done = TRUE])
         [] e.kind = "Error" ->
              IF ~found THEN NoMonitorFound(m)
              ELSE ExitWhenNoneRunning([m EXCEPT !.monitors[key].done = TRUE,
                                                 !.monitors[key].err = TRUE])

(* ---------------- the filter parser ---------------- *)
\* strings used by the parser and its inputs, as bytes
Str_Space == <<32>>
Str_AND == <<65, 78, 68>>
Str_OR == <<79, 82>>
Str_and == <<97, 110, 100>>
Str_or == <<111, 114>>
Str_And == <<65, 110, 100>>
Str_oR == <<111, 82>>
Str_Tautology == <<49, 61, 49>>

RECURSIVE Join(_, _)
\* the strings of parts joined by sep
Join(parts, sep) ==
    IF parts = <<>> THEN <<>>
    ELSE IF Len(parts) = 1 THEN parts[1]
    ELSE parts[1] \o sep \o Join(Tail(parts), sep)

RECURSIVE SplitOn(_, _, _)
SplitOn(s, sep, part) ==
    IF s = <<>> THEN <<part>>
    ELSE IF Head(s) = sep THEN <<part>> \o SplitOn(Tail(s), sep, <<>>)
    ELSE SplitOn(Tail(s), sep, Append(part, Head(s)))

\* strings.Split(s, " ")
SplitSpaces(s) == SplitOn(s, 32, <<>>)

\* strings.ToUpper on ASCII
ToUpper(s) == [k \in 1..Len(s) |-> IF s[k] >= 97 /\ s[k] <= 122 THEN s[k] - 32 ELSE s[k]]

RECURSIVE TrimLeft(_, _)
TrimLeft(s, cutset) ==
    IF s # <<>> /\ Head(s) \in cutset THEN TrimLeft(Tail(s), cutset) ELSE s

RECURSIVE TrimRight(_, _)
TrimRight(s, cutset) ==
    IF s # <<>> /\ s[Len(s)] \in cutset THEN TrimRight(SubSeq(s, 1, Len(s) - 1), cutset)
    ELSE s

\* strings.Trim(s, cutset)
Trim(s, cutset) == TrimRight(TrimLeft(s, cutset), cutset)

\* case "AND", "OR", "and", "or"
IsConnectorToken(part) == part \in {Str_AND, Str_OR, Str_and, Str_or}

RECURSIVE splitExpressionsLoop(_, _, _)
\* the loop of splitExpressions over allParts, and the flush after it
splitExpressionsLoop(allParts, parts, partBuilder) ==
    IF allParts = <<>>
    THEN IF Len(partBuilder) > 0 THEN Append(parts, Trim(partBuilder, {32})) ELSE parts
    ELSE IF IsConnectorToken(Head(allParts))
         THEN splitExpressionsLoop(Tail(allParts),
                                   parts \o <<Trim(partBuilder, {32}), ToUpper(Head(allParts))>>,
                                   <<>>)
         ELSE splitExpressionsLoop(Tail(allParts), parts,
                                   partBuilder \o Head(allParts) \o Str_Space)

splitExpressions(s) == splitExpressionsLoop(SplitSpaces(s), <<>>, <<>>)

\* [\[\]\"a-zA-Z0-9_ ]
ColumnClass ==
    {91, 93, 34, 95, 32} \cup (97..122) \cup (65..90) \cup (48..57)
\* [=<>]
OperatorClass == {61, 60, 62}

\* the pattern matches s from position i with a first group of l bytes and an
\* operator of k bytes
PatternMatchesAt(s, i, l, k) ==
    /\ i + l + k + 2 <= Len(s)
    /\ \A j \in i..(i + l - 1) : s[j] \in ColumnClass
    /\ s[i + l] = 32
    /\ \A j \in (i + l + 1)..(i + l + k) : s[j] \in OperatorClass
    /\ s[i + l + k + 1] = 32
    /\ s[i + l + k + 2] # 10

\* expressionPattern.FindStringSubmatch(s): the leftmost match, the first group as
\* short as possible, the operator as long as possible, the value up to the end
\* of the line; <<>> when there is no match
FindStringSubmatch(s) ==
    LET starts == {i \in 1..Len(s) :
                     \E l \in 1..Len(s), k \in 1..2 : PatternMatchesAt(s, i, l, k)}
    IN IF starts = {} THEN <<>>
       ELSE LET i == CHOOSE x \in starts : \A y \in starts : x <= y
                ls == {l \in 1..Len(s) : \E k \in 1..2 : PatternMatchesAt(s, i, l, k)}
                l == CHOOSE x \in ls : \A y \in ls : x <= y
                k == IF PatternMatchesAt(s, i, l, 2) THEN 2 ELSE 1
                ends == {e \in (i + l + k + 2)..Len(s) :
                            \A j \in (i + l + k + 2)..e : s[j] # 10}
                last == CHOOSE x \in ends : \A y \in ends : y <= x
            IN <<SubSeq(s, i, last), SubSeq(s, i, i + l - 1),
                 SubSeq(s, i + l + 1, i + l + k), SubSeq(s, i + l + k + 2, last)>>

RECURSIVE parseFilterLoop(_, _)
\* the loop of parseFilter over the parts
parseFilterLoop(expressions, f) ==
    IF expressions = <<>> THEN f
    ELSE LET filterPart == Head(expressions)
             matches == FindStringSubmatch(filterPart)
         IN IF filterPart = Str_AND \/ filterPart = Str_OR
            THEN parseFilterLoop(Tail(expressions),
                                 [f EXCEPT !.operators = Append(@, filterPart)])
            ELSE IF Len(matches) < 3
                 THEN [err |-> TRUE, expressions |-> <<>>, operators |-> <<>>]
                 ELSE parseFilterLoop(
                        Tail(expressions),
                        [f EXCEPT !.expressions =
                            Append(@, [column |-> Trim(matches[2], {34, 91, 93}),
                                       operator |-> matches[3],
                                       value |-> Trim(matches[4], {39})])])

\* parseFilter: the filter and whether an error is returned
parseFilter(queryFilter) ==
    IF queryFilter = <<>> THEN [err |-> FALSE, expressions |-> <<>>, operators |-> <<>>]
    ELSE parseFilterLoop(splitExpressions(queryFilter),
                         [err |-> FALSE, expressions |-> <<>>, operators |-> <<>>])

RECURSIVE DoubleQuotes(_)
\* strings.Replace(s, "'", "''", -1)
DoubleQuotes(s) ==
    IF s = <<>> THEN <<>>
    ELSE (IF Head(s) = 39 THEN <<39, 39>> ELSE <<Head(s)>>) \o DoubleQuotes(Tail(s))

\* TSQLQuoter.Value of go-mssqldb for a string
QuoterValue(s) == <<39>> \o DoubleQuotes(s) \o <<39>>

\* expression.String()
expressionString(e) ==
    <<40, 32>> \o QuoterID(e.column) \o Str_Space \o ToUpper(e.operator) \o Str_Space
        \o QuoterValue(e.value) \o <<32, 41>>

RECURSIVE filterStringLoop(_, _, _)
\* the loop of filter.String()
filterStringLoop(f, expressionIndex, operatorIndex) ==
    IF expressionIndex = Len(f.expressions) /\ operatorIndex = Len(f.operators)
    THEN <<>>
    ELSE (IF expressionIndex < Len(f.expressions)
          THEN expressionString(f.expressions[expressionIndex + 1]) ELSE <<>>)
         \o (IF operatorIndex < Len(f.operators)
             THEN Str_Space \o f.operators[operatorIndex + 1] \o Str_Space ELSE <<>>)
         \o filterStringLoop(
                f,
                IF expressionIndex < Len(f.expressions)
                THEN expressionIndex + 1 ELSE expressionIndex,
                IF operatorIndex < Len(f.operators)
                THEN operatorIndex + 1 ELSE operatorIndex)

\* filter.String()
filterString(f) ==
    IF Len(f.expressions) = 0 THEN Str_Tautology ELSE filterStringLoop(f, 0, 0)

(* ---------------- state ---------------- *)
VARIABLES
    tasks,      \* Copy: the tables of the job, in order
    parallel,   \* Copy: the parrallel argument
    schedPc,    \* Copy: "spawn" (before the go statements of a chunk), "wait", "done"
    chunkNo,    \* Copy: index of the current chunk
    waitNo,     \* Copy: index in the chunk of the task being waited for
    waitResult, \* per table: what task.Wait() returned ("none" before it returns)
    ct,         \* per table: the CopyTask and the position of Run and its two stages
    bulk,       \* per table: the BulkInsert of the writer stage
    source,     \* per table: the source store's table: [rows, schema]
    faulty,     \* per table: whether the stores' calls for the table may fail
    target,     \* per table: the target store's table
    events,     \* per table: the events sent to eventChan, in order
    hist,       \* per table: history of the run (not program state)
    fnIn,       \* input of the pure function under check
    fnOut,      \* its result
    eventChan,  \* Copy: the events sent and not yet received by the Monitor
    mon,        \* the Monitor
    ctxDone,    \* Copy: ctx has been cancelled
    schemaDefs,    \* MSSQLDB.schemaDefs of one store: table -> schema map
    schemaDefLock, \* MSSQLDB.schemaDefLock: the caller holding it, 0 when free
    gsd,           \* per caller of GetSchemaDefinition: its position and locals
    gsdHist        \* per table: history of the schema queries (not program state)

vars == <<tasks, parallel, schedPc, chunkNo, waitNo, waitResult, ct, bulk, source,
          faulty, target, events, hist, fnIn, fnOut, eventChan, mon, ctxDone,
          schemaDefs, schemaDefLock, gsd, gsdHist>>

Tables == 1..MaxTables
JobTables == SeqToSet(tasks)

\* (source schema, target schema) of a table
SchemaCases ==
    {[src |-> [c \in {"a"} |-> "int"], tgt |-> [c \in {"a"} |-> "int"]],
     [src |-> [c \in {"a"} |-> "int"], tgt |-> [c \in {"a"} |-> "text"]],
     [src |-> [c \in {"b"} |-> ""], tgt |-> [c \in {"a"} |-> "int"]],
     [src |-> [c \in {"a", "b"} |-> "int"], tgt |-> [c \in {"a"} |-> "int"]]}

NewCopyTask ==
    [runPc |-> "idle", rdPc |-> "idle", wrPc |-> "idle", wg |-> 2, errs |-> <<>>,
     targetSchema |-> <<>>, dataChan |-> <<>>, closed |-> FALSE,
     cursor |-> 0, values |-> EmptyValues, i |-> 0, fks |-> <<>>, row |-> <<>>]

NewHist(tg) ==
    [rows0 |-> tg.rows, fks0 |-> tg.fks, storeFailed |-> FALSE, stageErr |-> FALSE,
     drops |-> 0, truncates |-> 0, inserted |-> <<>>,
     midFail |-> FALSE, pendingAtFail |-> <<>>, ops |-> <<>>,
     targetSchemaFailed |-> FALSE, yielded |-> <<>>]

TargetTable(schema, nOld, fks) ==
    [schema |-> schema, rows |-> [k \in 1..nOld |-> OldRow], fks |-> fks,
     pending |-> <<>>, txOpen |-> FALSE, leaked |-> 0, txs |-> <<>>]

\* a store with an empty schema cache and no caller of GetSchemaDefinition
NoCallers ==
    /\ schemaDefs = <<>>
    /\ schemaDefLock = 0
    /\ gsd = <<>>
    /\ gsdHist = [t \in Tables |-> [queried |-> 0, stored |-> 0]]

\* no pure function under check
FnIdle == fnIn = [fn |-> "none"] /\ fnOut = [done |-> FALSE]

SchedInit(m, k) ==
    /\ tasks = [i \in 1..m |-> i]
    /\ parallel = k
    /\ schedPc = "spawn"
    /\ chunkNo = 1
    /\ waitNo = 1
    /\ waitResult = [t \in Tables |-> "none"]
    /\ ct = [t \in Tables |-> NewCopyTask]
    /\ bulk = [t \in Tables |-> NewBulkInsert]
    /\ events = [t \in Tables |-> <<>>]
    /\ eventChan = <<>>
    /\ mon = DetachedMonitor
    /\ ctxDone = FALSE
    /\ NoCallers

\* one table, any source and target
Init ==
    /\ SchedInit(1, 1)
    /\ \E sc \in SchemaCases, n \in 0..MaxRows, o \in 0..MaxOldRows, f \in FkSets(1) :
         /\ source = [t \in Tables |-> [rows |-> IF t = 1 THEN n ELSE 0, schema |-> sc.src]]
         /\ target = [t \in Tables |->
                        IF t = 1 THEN TargetTable(sc.tgt, o, f)
                        ELSE TargetTable(sc.tgt, 0, {})]
    /\ faulty = [t \in Tables |-> t = 1]
    /\ hist = [t \in Tables |-> NewHist(target[t])]
    /\ FnIdle

\* a job of several tables with equal schemas: the store may fail the calls for
\* one of them, which has MaxRows rows; the other tables are empty
InitSched ==
    /\ \E m \in 1..MaxTables, k \in 1..MaxParallel : SchedInit(m, k)
    /\ \E f \in JobTables :
         /\ faulty = [t \in Tables |-> t = f]
         /\ source = [t \in Tables |->
                        [rows |-> IF t = f THEN MaxRows ELSE 0,
                         schema |-> [c \in {"a"} |-> "int"]]]
    /\ target = [t \in Tables |->
                   TargetTable([c \in {"a"} |-> "int"], 1, {FkOf(t, 1, FALSE)})]
    /\ hist = [t \in Tables |-> NewHist(target[t])]
    /\ FnIdle

\* one table with rows on both sides, any source schema and any target schema
InitSchema ==
    /\ SchedInit(1, 1)
    /\ \E A \in Schemas, B \in Schemas :
         /\ source = [t \in Tables |-> [rows |-> IF t = 1 THEN MaxRows ELSE 0, schema |-> A]]
         /\ target = [t \in Tables |-> TargetTable(B, 1, {FkOf(t, 1, FALSE)})]
    /\ faulty = [t \in Tables |-> t = 1]
    /\ hist = [t \in Tables |-> NewHist(target[t])]
    /\ FnIdle

(* ---------------- CopyTask.Run ---------------- *)
\* the outcomes of a store call for table t: TRUE, it succeeds
Outcomes(t) == IF faulty[t] THEN BOOLEAN ELSE {TRUE}
\* the event of kind e that the task of table t sends
EventOf(t, e) ==
    Event(e, TableRefOf(t),
          IF e = "Count" THEN source[t].rows ELSE IF e = "Progress" THEN 1 ELSE 0)

\* mutant: the channel hands out the newest event first
EventChanSend_Lifo(ch, e) == <<e>> \o ch

\* the buffer of eventChan after a send: first in, first out
EventChanSend(ch, e) == Append(ch, e)

\* ct.eventChan <- event: blocks while the buffer is full. The step that ends with
\* the send is taken when the send can proceed
Emit(t, e) ==
    /\ events' = [events EXCEPT ![t] = Append(@, e)]
    /\ IF mon.pc = "detached" THEN UNCHANGED eventChan
       ELSE /\ Len(eventChan) < EventChanCap
            /\ eventChan' = EventChanSend(eventChan, EventOf(t, e))

Fail(h, failed) == IF failed THEN [h EXCEPT !.storeFailed = TRUE] ELSE h

\* the history h of table t with one more call of the writer stage on the target
\* store: its name, whether it succeeded, and i, the row held and whether
\* task-finished had been sent when it was made
LogOp(h, t, op, ok) ==
    [h EXCEPT !.ops = Append(@, [op |-> op, ok |-> ok, i |-> ct[t].i, row |-> ct[t].row,
                                 finished |-> \E k \in 1..Len(events[t]) :
                                                events[t][k] = "Finished"])]

\* the deferred wg.Done() and close(dataChan) of the reader stage
ReaderReturn(c) == [c EXCEPT !.rdPc = "done", !.wg = @ - 1, !.closed = TRUE]
\* the deferred wg.Done() of the writer stage
WriterReturn(c) == [c EXCEPT !.wrPc = "done", !.wg = @ - 1]

\* mutant: only one stage is signalled as complete
TargetSchemaFailureReturn_OneDone(c) == [c EXCEPT !.runPc = "returned", !.wg = @ - 1]

\* ct.wg.Done(); ct.wg.Done(); return err
TargetSchemaFailureReturn(c) == [c EXCEPT !.runPc = "returned", !.wg = @ - 2]

\* ct.eventChan <- CopyTaskStartedEvent
RunStart(t) ==
    /\ ct[t].runPc = "start"
    /\ ct' = [ct EXCEPT ![t].runPc = "schema"]
    /\ Emit(t, "Started")
    /\ UNCHANGED <<tasks, parallel, schedPc, chunkNo, waitNo, waitResult, bulk, source,
                   faulty, target, hist, fnIn, schemaDefs, schemaDefLock, gsd, gsdHist, fnOut, mon, ctxDone>>

\* targetDB.GetSchemaDefinition, then the two go statements
RunTargetSchema(t) ==
    /\ ct[t].runPc = "schema"
    /\ \E ok \in Outcomes(t) :
         IF ok
         THEN /\ ct' = [ct EXCEPT ![t].runPc = "returned", ![t].rdPc = "srcSchema",
                                  ![t].wrPc = "recv",
                                  ![t].targetSchema = target[t].schema]
              /\ bulk' = [bulk EXCEPT ![t] = NewBulkInsert]
              /\ UNCHANGED <<events, eventChan, hist>>
         ELSE /\ ct' = [ct EXCEPT ![t] = TargetSchemaFailureReturn(@)]
              /\ Emit(t, "Error")
              /\ hist' = [hist EXCEPT ![t].storeFailed = TRUE,
                                      ![t].targetSchemaFailed = TRUE]
              /\ UNCHANGED bulk
    /\ UNCHANGED <<tasks, parallel, schedPc, chunkNo, waitNo, waitResult, source, faulty,
                   target, fnIn, schemaDefs, schemaDefLock, gsd, gsdHist, fnOut, mon, ctxDone>>

\* the reader stage fails: records the error, sends ErrorEvent, returns
ReaderFails(t, storeFailure) ==
    /\ ct' = [ct EXCEPT ![t] = ReaderReturn([@ EXCEPT !.errs = RecordErr(@, "err")])]
    /\ Emit(t, "Error")
    /\ hist' = [hist EXCEPT ![t] = Fail([@ EXCEPT !.stageErr = TRUE], storeFailure)]

\* sourceDB.GetSchemaDefinition and compareSchemas
ReaderSourceSchema(t) ==
    /\ ct[t].rdPc = "srcSchema"
    /\ \E ok \in Outcomes(t) :
         IF ~ok THEN ReaderFails(t, TRUE)
         ELSE IF ~compareSchemas(source[t].schema, ct[t].targetSchema)
              THEN ReaderFails(t, FALSE)
              ELSE /\ ct' = [ct EXCEPT ![t].rdPc = "count"]
                   /\ UNCHANGED <<events, eventChan, hist>>
    /\ UNCHANGED <<tasks, parallel, schedPc, chunkNo, waitNo, waitResult, bulk, source,
                   faulty, target, fnIn, schemaDefs, schemaDefLock, gsd, gsdHist, fnOut, mon, ctxDone>>

\* sourceDB.GetCount and CountUpdateEvent
ReaderCount(t) ==
    /\ ct[t].rdPc = "count"
    /\ \E ok \in Outcomes(t) :
         IF ~ok THEN ReaderFails(t, TRUE)
         ELSE /\ ct' = [ct EXCEPT ![t].rdPc = "select"]
              /\ Emit(t, "Count")
              /\ UNCHANGED hist
    /\ UNCHANGED <<tasks, parallel, schedPc, chunkNo, waitNo, waitResult, bulk, source,
                   faulty, target, fnIn, schemaDefs, schemaDefLock, gsd, gsdHist, fnOut, mon, ctxDone>>

\* sourceDB.SelectFrom with the target's columns
ReaderSelect(t) ==
    /\ ct[t].rdPc = "select"
    /\ \E ok \in Outcomes(t) :
         IF ~ok \/ ~SelectColumnsExist(DOMAIN ct[t].targetSchema, source[t].schema)
         THEN ReaderFails(t, TRUE)
         ELSE /\ ct' = [ct EXCEPT ![t].rdPc = "next"]
              /\ UNCHANGED <<events, eventChan, hist>>
    /\ UNCHANGED <<tasks, parallel, schedPc, chunkNo, waitNo, waitResult, bulk, source,
                   faulty, target, fnIn, schemaDefs, schemaDefLock, gsd, gsdHist, fnOut, mon, ctxDone>>

\* after rows.Next(): leave the loop (and return) or go on to the send
AfterNext(c, values) ==
    IF ReaderBreaks(values) THEN ReaderReturn([c EXCEPT !.values = values])
    ELSE [c EXCEPT !.values = values, !.rdPc = "send"]

\* rows.Next(): the next row, a Scan error (nil and the error), the end of the
\* data, or sql.Rows.Next() returning false on a driver error, which Next reports
\* as the end of the data
ReaderNext(t) ==
    /\ ct[t].rdPc = "next"
    /\ \/ /\ ct[t].cursor < source[t].rows
          /\ ct' = [ct EXCEPT ![t] = AfterNext([@ EXCEPT !.cursor = @ + 1],
                                               RowValues(ct[t].cursor + 1))]
          /\ hist' = [hist EXCEPT ![t].yielded = Append(@, Row(ct[t].cursor + 1))]
          /\ UNCHANGED <<events, eventChan>>
       \/ /\ ct[t].cursor < source[t].rows
          /\ faulty[t]
          /\ ct' = [ct EXCEPT ![t] = AfterNext([@ EXCEPT !.errs = RecordErr(@, "err")],
                                               NilValues)]
          /\ Emit(t, "Error")
          /\ hist' = [hist EXCEPT ![t].storeFailed = TRUE, ![t].stageErr = TRUE,
                                  ![t].midFail = TRUE,
                                  ![t].pendingAtFail = target[t].pending]
       \/ /\ ct[t].cursor < source[t].rows
          /\ faulty[t]
          /\ ct' = [ct EXCEPT ![t] = AfterNext(@, EmptyValues)]
          /\ hist' = [hist EXCEPT ![t].storeFailed = TRUE]
          /\ UNCHANGED <<events, eventChan>>
       \/ /\ ct[t].cursor >= source[t].rows
          /\ ct' = [ct EXCEPT ![t] = AfterNext(@, EmptyValues)]
          /\ UNCHANGED <<events, eventChan, hist>>
    /\ UNCHANGED <<tasks, parallel, schedPc, chunkNo, waitNo, waitResult, bulk, source,
                   faulty, target, fnIn, schemaDefs, schemaDefLock, gsd, gsdHist, fnOut, mon, ctxDone>>

\* dataChan <- values: blocks while the buffer is full
ReaderSend(t) ==
    /\ ct[t].rdPc = "send"
    /\ Len(ct[t].dataChan) < DataChanCap
    /\ ct' = [ct EXCEPT ![t].dataChan = Append(@, ct[t].values.cols), ![t].rdPc = "next"]
    /\ UNCHANGED <<tasks, parallel, schedPc, chunkNo, waitNo, waitResult, bulk, source,
                   faulty, target, events, eventChan, hist, fnIn, schemaDefs, schemaDefLock, gsd, gsdHist, fnOut, mon, ctxDone>>

(* ---------------- the writer stage ---------------- *)
\* the writer stage fails: records the error, sends ErrorEvent, returns
WriterFails(t) ==
    /\ ct' = [ct EXCEPT ![t] = WriterReturn([@ EXCEPT !.errs = RecordErr(@, "err")])]
    /\ Emit(t, "Error")

\* mutant: the row received stays in the channel
DataChanRecv_Peek(ch) == [row |-> Head(ch), rest |-> ch]

\* row := <-dataChan of the range loop: the oldest row leaves the channel
DataChanRecv(ch) == [row |-> Head(ch), rest |-> Tail(ch)]

\* for row := range dataChan: a row, or the end of the loop on a closed, drained channel
WriterRecv(t) ==
    /\ ct[t].wrPc = "recv"
    /\ \/ /\ Len(ct[t].dataChan) > 0
          /\ ct' = [ct EXCEPT ![t].dataChan = DataChanRecv(ct[t].dataChan).rest,
                              ![t].row = DataChanRecv(ct[t].dataChan).row,
                              ![t].wrPc = IF FirstRow(ct[t].i) THEN "getfks" ELSE "insert"]
       \/ /\ Len(ct[t].dataChan) = 0
          /\ ct[t].closed
          /\ ct' = [ct EXCEPT ![t].wrPc = "commit"]
    /\ UNCHANGED <<tasks, parallel, schedPc, chunkNo, waitNo, waitResult, bulk, source,
                   faulty, target, events, eventChan, hist, fnIn, schemaDefs, schemaDefLock, gsd, gsdHist, fnOut, mon, ctxDone>>

\* targetDB.GetReferencedForeignKeys
WriterGetFks(t) ==
    /\ ct[t].wrPc = "getfks"
    /\ \E ok \in Outcomes(t) :
         IF ok
         THEN /\ ct' = [ct EXCEPT ![t].fks = SetToSeqByName(target[t].fks),
                                  ![t].wrPc = "dropfks"]
              /\ hist' = [hist EXCEPT ![t] = LogOp(@, t, "GetReferencedForeignKeys", TRUE)]
              /\ UNCHANGED <<events, eventChan>>
         ELSE /\ WriterFails(t)
              /\ hist' = [hist EXCEPT ![t] =
                            LogOp([@ EXCEPT !.storeFailed = TRUE, !.stageErr = TRUE],
                                  t, "GetReferencedForeignKeys", FALSE)]
    /\ UNCHANGED <<tasks, parallel, schedPc, chunkNo, waitNo, waitResult, bulk, source,
                   faulty, target, fnIn, schemaDefs, schemaDefLock, gsd, gsdHist, fnOut, mon, ctxDone>>

\* targetDB.DropReferencedForeignKeys: its own query, then one DROP CONSTRAINT per
\* constraint; failAt is the call that fails (0: the query, n + 1: none)
WriterDropFks(t) ==
    /\ ct[t].wrPc = "dropfks"
    /\ LET n == Cardinality(target[t].fks)
       IN \E failAt \in (IF faulty[t] THEN 0..n ELSE {}) \cup {n + 1} :
            LET left == DropReferencedForeignKeys(target[t].fks, failAt)
            IN /\ target' = [target EXCEPT ![t].fks = left]
               /\ IF failAt = n + 1
                  THEN /\ ct' = [ct EXCEPT ![t].wrPc = "truncate"]
                       /\ hist' = [hist EXCEPT ![t] =
                                     LogOp([@ EXCEPT !.drops = @ + n],
                                           t, "DropReferencedForeignKeys", TRUE)]
                       /\ UNCHANGED <<events, eventChan>>
                  ELSE /\ WriterFails(t)
                       /\ hist' = [hist EXCEPT ![t] =
                                     LogOp([@ EXCEPT !.storeFailed = TRUE,
                                                     !.stageErr = TRUE,
                                                     !.drops = @ + n - Cardinality(left)],
                                           t, "DropReferencedForeignKeys", FALSE)]
    /\ UNCHANGED <<tasks, parallel, schedPc, chunkNo, waitNo, waitResult, bulk, source,
                   faulty, fnIn, schemaDefs, schemaDefLock, gsd, gsdHist, fnOut, mon, ctxDone>>

\* targetDB.EmptyTable
WriterTruncate(t) ==
    /\ ct[t].wrPc = "truncate"
    /\ \E ok \in Outcomes(t) :
         IF ok
         THEN /\ target' = [target EXCEPT ![t].rows = EmptyTable(@)]
              /\ ct' = [ct EXCEPT ![t].wrPc = "insert"]
              /\ hist' = [hist EXCEPT ![t] =
                            LogOp([@ EXCEPT !.truncates = @ + 1], t, "EmptyTable", TRUE)]
              /\ UNCHANGED <<events, eventChan>>
         ELSE /\ WriterFails(t)
              /\ hist' = [hist EXCEPT ![t] =
                            LogOp([@ EXCEPT !.storeFailed = TRUE, !.stageErr = TRUE],
                                  t, "EmptyTable", FALSE)]
              /\ UNCHANGED target
    /\ UNCHANGED <<tasks, parallel, schedPc, chunkNo, waitNo, waitResult, bulk, source,
                   faulty, fnIn, schemaDefs, schemaDefLock, gsd, gsdHist, fnOut, mon, ctxDone>>

\* i++, bulkInsert.Insert(row); on an error Rollback and return, else ProgressUpdateEvent
WriterInsert(t) ==
    /\ ct[t].wrPc = "insert"
    /\ \E fault \in (IF faulty[t] THEN InsertFaultsOf(bulk[t]) ELSE {"none"}) :
         LET r == BulkInsert_Insert(bulk[t], target[t], ct[t].row, fault)
         IN /\ bulk' = [bulk EXCEPT ![t] = r.bi]
            /\ IF r.err
               THEN /\ target' = [target EXCEPT ![t] = BulkRollback(r.bi, r.db)]
                    /\ WriterFails(t)
                    /\ hist' = [hist EXCEPT ![t] =
                                  LogOp([@ EXCEPT !.storeFailed = TRUE, !.stageErr = TRUE,
                                                  !.inserted = Append(@, ct[t].row),
                                                  !.midFail = TRUE,
                                                  !.pendingAtFail = r.db.pending],
                                        t, "Insert", FALSE)]
               ELSE /\ target' = [target EXCEPT ![t] = r.db]
                    /\ ct' = [ct EXCEPT ![t].i = @ + 1, ![t].wrPc = "recv"]
                    /\ Emit(t, "Progress")
                    /\ hist' = [hist EXCEPT ![t] =
                                  LogOp([@ EXCEPT !.inserted = Append(@, ct[t].row)],
                                        t, "Insert", TRUE)]
    /\ UNCHANGED <<tasks, parallel, schedPc, chunkNo, waitNo, waitResult, source, faulty,
                   fnIn, schemaDefs, schemaDefLock, gsd, gsdHist, fnOut, mon, ctxDone>>

\* bulkInsert.Commit after the loop; without foreign keys to add, CopyTaskFinishedEvent
WriterCommit(t) ==
    /\ ct[t].wrPc = "commit"
    /\ \E fault \in (IF faulty[t] THEN CommitFaultsOf(bulk[t]) ELSE {"none"}) :
         LET r == BulkCommit(bulk[t], target[t], fault)
         IN /\ bulk' = [bulk EXCEPT ![t] = r.bi]
            /\ target' = [target EXCEPT ![t] = r.db]
            /\ IF r.err
               THEN /\ WriterFails(t)
                    /\ hist' = [hist EXCEPT ![t] =
                                  LogOp([@ EXCEPT !.storeFailed = TRUE, !.stageErr = TRUE],
                                        t, "Commit", FALSE)]
               ELSE /\ hist' = [hist EXCEPT ![t] = LogOp(@, t, "Commit", TRUE)]
                    /\ IF Len(ct[t].fks) > 0
                       THEN /\ ct' = [ct EXCEPT ![t].wrPc = "addfks"]
                            /\ UNCHANGED <<events, eventChan>>
                       ELSE /\ ct' = [ct EXCEPT ![t] = WriterReturn(@)]
                            /\ Emit(t, "Finished")
    /\ UNCHANGED <<tasks, parallel, schedPc, chunkNo, waitNo, waitResult, source, faulty,
                   fnIn, schemaDefs, schemaDefLock, gsd, gsdHist, fnOut, mon, ctxDone>>

\* targetDB.AddForeignKeys(fks), then CopyTaskFinishedEvent; failAt is the
\* AddForeignKey call that fails (n + 1: none)
WriterAddFks(t) ==
    /\ ct[t].wrPc = "addfks"
    /\ LET n == Len(ct[t].fks)
       IN \E failAt \in (IF faulty[t] THEN 1..n ELSE {}) \cup {n + 1} :
            /\ target' = [target EXCEPT ![t].fks = AddForeignKeys(@, ct[t].fks, failAt)]
            /\ IF failAt = n + 1
               THEN /\ ct' = [ct EXCEPT ![t] = WriterReturn(@)]
                    /\ Emit(t, "Finished")
                    /\ hist' = [hist EXCEPT ![t] = LogOp(@, t, "AddForeignKeys", TRUE)]
               ELSE /\ WriterFails(t)
                    /\ hist' = [hist EXCEPT ![t] =
                                  LogOp([@ EXCEPT !.storeFailed = TRUE, !.stageErr = TRUE],
                                        t, "AddForeignKeys", FALSE)]
    /\ UNCHANGED <<tasks, parallel, schedPc, chunkNo, waitNo, waitResult, bulk, source,
                   faulty, fnIn, schemaDefs, schemaDefLock, gsd, gsdHist, fnOut, mon, ctxDone>>

(* ---------------- Copy: the scheduler ---------------- *)
Chunks == chunkBy(tasks, parallel)

\* mutant: every remaining task is started with the chunk
ChunkToStart_All(chunks, n) ==
    SeqToSet(chunks[n]) \cup UNION {SeqToSet(chunks[j]) : j \in n..Len(chunks)}

\* for _, task := range chunk { go task.Run(ctx) }
ChunkToStart(chunks, n) == SeqToSet(chunks[n])

SchedStartChunk ==
    /\ schedPc = "spawn"
    /\ ct' = [t \in Tables |->
                IF t \in ChunkToStart(Chunks, chunkNo)
                THEN [ct[t] EXCEPT !.runPc = "start"] ELSE ct[t]]
    /\ schedPc' = "wait"
    /\ waitNo' = 1
    /\ UNCHANGED <<tasks, parallel, chunkNo, waitResult, bulk, source, faulty, target,
                   events, eventChan, hist, fnIn, schemaDefs, schemaDefLock, gsd, gsdHist, fnOut, mon, ctxDone>>

\* task.Wait() for the next task of the chunk; after the last one the next
\* chunk, and after the last chunk cancel()
SchedWait ==
    /\ schedPc = "wait"
    /\ LET chunk == Chunks[chunkNo]
           task == chunk[waitNo]
       IN /\ WaitGroupDone(ct[task].wg)
          /\ waitResult' = [waitResult EXCEPT ![task] = WaitResult(ct[task].errs)]
          /\ IF waitNo < Len(chunk)
             THEN /\ waitNo' = waitNo + 1
                  /\ UNCHANGED <<schedPc, chunkNo>>
             ELSE /\ waitNo' = 1
                  /\ IF chunkNo < Len(Chunks)
                     THEN chunkNo' = chunkNo + 1 /\ schedPc' = "spawn"
                     ELSE chunkNo' = chunkNo /\ schedPc' = "done"
          /\ ctxDone' = (waitNo = Len(chunk) /\ chunkNo = Len(Chunks))
    /\ UNCHANGED <<tasks, parallel, ct, bulk, source, faulty, target, events, eventChan,
                   hist, fnIn, schemaDefs, schemaDefLock, gsd, gsdHist, fnOut, mon>>

\* the steps of the goroutines of task t
TaskStep(t) ==
         \/ RunStart(t)
         \/ RunTargetSchema(t)
         \/ ReaderSourceSchema(t)
         \/ ReaderCount(t)
         \/ ReaderSelect(t)
         \/ ReaderNext(t)
         \/ ReaderSend(t)
         \/ WriterRecv(t)
         \/ WriterGetFks(t)
         \/ WriterDropFks(t)
         \/ WriterTruncate(t)
         \/ WriterInsert(t)
         \/ WriterCommit(t)
         \/ WriterAddFks(t)

Next ==
    \/ SchedStartChunk
    \/ SchedWait
    \/ \E t \in Tables : TaskStep(t)

Spec == Init /\ [][Next]_vars

SpecSched == InitSched /\ [][Next]_vars

SpecSchema == InitSchema /\ [][Next]_vars

(* ---------------- Monitor.Run ---------------- *)
\* case event := <-m.eventChan
MonitorReceive ==
    /\ mon.pc = "run"
    /\ eventChan # <<>>
    /\ eventChan' = Tail(eventChan)
    /\ mon' = [HandleEvent(mon, Head(eventChan)) EXCEPT !.last = Head(eventChan)]
    /\ UNCHANGED <<tasks, parallel, schedPc, chunkNo, waitNo, waitResult, ct, bulk,
                   source, faulty, target, events, hist, fnIn, schemaDefs, schemaDefLock, gsd, gsdHist, fnOut, ctxDone>>

\* case <-m.renderTicker.C
MonitorTick ==
    /\ mon.pc = "run"
    /\ ~mon.tickerStopped
    /\ mon' = render(mon)
    /\ UNCHANGED <<tasks, parallel, schedPc, chunkNo, waitNo, waitResult, ct, bulk,
                   source, faulty, target, events, eventChan, hist, fnIn, schemaDefs, schemaDefLock, gsd, gsdHist, fnOut,
                   ctxDone>>

\* case <-ctx.Done()
MonitorCancel ==
    /\ mon.pc = "run"
    /\ ctxDone
    /\ mon' = RenderAndReturn(mon, "cancel")
    /\ UNCHANGED <<tasks, parallel, schedPc, chunkNo, waitNo, waitResult, ct, bulk,
                   source, faulty, target, events, eventChan, hist, fnIn, schemaDefs, schemaDefLock, gsd, gsdHist, fnOut,
                   ctxDone>>

MonitorStep == MonitorReceive \/ MonitorTick \/ MonitorCancel

(* ---------------- Copy with its Monitor ---------------- *)
\* a job of two tables in one chunk, with the Monitor goroutine (interactive mode)
\* and the bounded eventChan: the store may fail the calls for table 1, which has
\* one row; table 2 has EventChanCap - 1 rows, so that its events (task-started,
\* row-count-known, one progress-delta per row, task-finished) are more than
\* eventChan buffers
InitJob ==
    /\ tasks = <<1, 2>>
    /\ parallel = 2
    /\ schedPc = "spawn"
    /\ chunkNo = 1
    /\ waitNo = 1
    /\ waitResult = [t \in Tables |-> "none"]
    /\ ct = [t \in Tables |-> NewCopyTask]
    /\ bulk = [t \in Tables |-> NewBulkInsert]
    /\ events = [t \in Tables |-> <<>>]
    /\ eventChan = <<>>
    /\ mon = NewMonitor(FALSE)
    /\ ctxDone = FALSE
    /\ NoCallers
    /\ faulty = [t \in Tables |-> t = 1]
    /\ source = [t \in Tables |->
                   [rows |-> IF t = 1 THEN 1 ELSE IF t = 2 THEN EventChanCap - 1 ELSE 0,
                    schema |-> [c \in {"a"} |-> "int"]]]
    /\ target = [t \in Tables |->
                   TargetTable([c \in {"a"} |-> "int"], 1, {FkOf(t, 1, FALSE)})]
    /\ hist = [t \in Tables |-> NewHist(target[t])]
    /\ FnIdle

NextJob == Next \/ MonitorStep

SpecJob == InitJob /\ [][NextJob]_vars

(* ---------------- Copy with its Monitor, one task at a time ---------------- *)
\* a job of one or two tables copied one after the other (parrallel = 1), with the
\* Monitor goroutine and the bounded eventChan: the store may fail the calls for
\* table 1, which has one row; table 2 has MaxRows rows
InitSerial ==
    /\ \E m \in 1..2 : tasks = [i \in 1..m |-> i]
    /\ parallel = 1
    /\ schedPc = "spawn"
    /\ chunkNo = 1
    /\ waitNo = 1
    /\ waitResult = [t \in Tables |-> "none"]
    /\ ct = [t \in Tables |-> NewCopyTask]
    /\ bulk = [t \in Tables |-> NewBulkInsert]
    /\ events = [t \in Tables |-> <<>>]
    /\ eventChan = <<>>
    /\ mon = NewMonitor(FALSE)
    /\ ctxDone = FALSE
    /\ NoCallers
    /\ faulty = [t \in Tables |-> t = 1]
    /\ source = [t \in Tables |->
                   [rows |-> IF t = 1 THEN 1 ELSE IF t = 2 THEN MaxRows ELSE 0,
                    schema |-> [c \in {"a"} |-> "int"]]]
    /\ target = [t \in Tables |->
                   TargetTable([c \in {"a"} |-> "int"], 1, {FkOf(t, 1, FALSE)})]
    /\ hist = [t \in Tables |-> NewHist(target[t])]
    /\ FnIdle

SpecSerial == InitSerial /\ [][NextJob]_vars

\* the steps of Run up to its return, of the reader stage and of the writer stage
RunSteps(t) == RunStart(t) \/ RunTargetSchema(t)
ReaderSteps(t) ==
    ReaderSourceSchema(t) \/ ReaderCount(t) \/ ReaderSelect(t) \/ ReaderNext(t)
        \/ ReaderSend(t)
WriterSteps(t) ==
    WriterRecv(t) \/ WriterGetFks(t) \/ WriterDropFks(t) \/ WriterTruncate(t)
        \/ WriterInsert(t) \/ WriterCommit(t) \/ WriterAddFks(t)

\* every goroutine that can take a step eventually takes one: Copy, each Run and
\* each stage, and the Monitor, whose select eventually takes a case that stays ready
FairScheduling ==
    /\ WF_vars(SchedStartChunk)
    /\ WF_vars(SchedWait)
    /\ \A t \in Tables :
         WF_vars(RunSteps(t)) /\ WF_vars(ReaderSteps(t)) /\ WF_vars(WriterSteps(t))
    /\ WF_vars(MonitorReceive)
    /\ WF_vars(MonitorCancel)

SpecSerialFair == SpecSerial /\ FairScheduling

(* ---------------- the Monitor on its own ---------------- *)
\* a Monitor in either mode, no Copy Task: the events come from a test
InitMon ==
    /\ tasks = <<>>
    /\ parallel = 1
    /\ schedPc = "done"
    /\ chunkNo = 1
    /\ waitNo = 1
    /\ waitResult = [t \in Tables |-> "none"]
    /\ ct = [t \in Tables |-> NewCopyTask]
    /\ bulk = [t \in Tables |-> NewBulkInsert]
    /\ events = [t \in Tables |-> <<>>]
    /\ source = [t \in Tables |-> [rows |-> 0, schema |-> <<>>]]
    /\ faulty = [t \in Tables |-> FALSE]
    /\ target = [t \in Tables |-> TargetTable(<<>>, 0, {})]
    /\ hist = [t \in Tables |-> NewHist(target[t])]
    /\ eventChan = <<>>
    /\ \E ci \in BOOLEAN : mon = NewMonitor(ci)
    /\ ctxDone = FALSE
    /\ NoCallers
    /\ fnIn = [fn |-> "Monitor"]
    /\ fnOut = [done |-> FALSE, sent |-> 0]

\* the events a test sends: any kind, for any of the tables
TestEvents ==
    {Event(kind, TableRefOf(t), 0) :
        kind \in {"Started", "Finished", "Error"}, t \in 1..MaxMonTables}
      \cup {Event("Count", TableRefOf(t), n) : t \in 1..MaxMonTables, n \in {0, 2}}
      \cup {Event("Progress", TableRefOf(t), 1) : t \in 1..MaxMonTables}

\* eventChan <- event, while the Monitor runs. The channel of the tests is
\* unbuffered: an event is sent when the one before it has been received
TestSend ==
    /\ fnIn.fn = "Monitor"
    /\ mon.pc = "run"
    /\ fnOut.sent < MaxEvents
    /\ eventChan = <<>>
    /\ \E e \in TestEvents : eventChan' = Append(eventChan, e)
    /\ fnOut' = [fnOut EXCEPT !.sent = @ + 1]
    /\ UNCHANGED <<tasks, parallel, schedPc, chunkNo, waitNo, waitResult, ct, bulk,
                   source, faulty, target, events, hist, fnIn, schemaDefs, schemaDefLock, gsd, gsdHist, mon, ctxDone>>

\* cancel()
TestCancel ==
    /\ fnIn.fn = "Monitor"
    /\ ~ctxDone
    /\ ctxDone' = TRUE
    /\ UNCHANGED <<tasks, parallel, schedPc, chunkNo, waitNo, waitResult, ct, bulk,
                   source, faulty, target, events, eventChan, hist, fnIn, schemaDefs, schemaDefLock, gsd, gsdHist, fnOut, mon>>

NextMon == TestSend \/ TestCancel \/ MonitorReceive \/ MonitorTick \/ MonitorCancel

SpecMon == InitMon /\ [][NextMon]_vars

(* ---------------- compareSchemas on its own ---------------- *)
\* no job: the scheduler has nothing to run
NoJob ==
    /\ tasks = <<>>
    /\ parallel = 1
    /\ schedPc = "done"
    /\ chunkNo = 1
    /\ waitNo = 1
    /\ waitResult = [t \in Tables |-> "none"]
    /\ ct = [t \in Tables |-> NewCopyTask]
    /\ bulk = [t \in Tables |-> NewBulkInsert]
    /\ events = [t \in Tables |-> <<>>]
    /\ source = [t \in Tables |-> [rows |-> 0, schema |-> <<>>]]
    /\ faulty = [t \in Tables |-> FALSE]
    /\ target = [t \in Tables |-> TargetTable(<<>>, 0, {})]
    /\ hist = [t \in Tables |-> NewHist(target[t])]
    /\ eventChan = <<>>
    /\ mon = DetachedMonitor
    /\ ctxDone = TRUE

InitCmp ==
    /\ NoJob
    /\ NoCallers
    /\ \E A \in Schemas, B \in Schemas : fnIn = [fn |-> "compareSchemas", A |-> A, B |-> B]
    /\ fnOut = [done |-> FALSE]

\* compareSchemas applied to (A, B) and to (B, A)
CompareStep ==
    /\ fnIn.fn = "compareSchemas"
    /\ ~fnOut.done
    /\ fnOut' = [done |-> TRUE,
                 ab |-> compareSchemas(fnIn.A, fnIn.B),
                 ba |-> compareSchemas(fnIn.B, fnIn.A)]
    /\ UNCHANGED <<tasks, parallel, schedPc, chunkNo, waitNo, waitResult, ct, bulk,
                   source, faulty, target, events, eventChan, hist, fnIn, schemaDefs, schemaDefLock, gsd, gsdHist, mon, ctxDone>>

NextCmp == CompareStep

SpecCmp == InitCmp /\ [][NextCmp]_vars

(* ---------------- BulkInsert on its own ---------------- *)
\* a fresh loader with commit threshold T on an empty table, and a caller that
\* makes any sequence of Insert, Commit and Rollback calls, going on after an
\* error (fnOut.failed: some call has returned an error)
InitLoader ==
    /\ tasks = <<>>
    /\ parallel = 1
    /\ schedPc = "done"
    /\ chunkNo = 1
    /\ waitNo = 1
    /\ waitResult = [t \in Tables |-> "none"]
    /\ ct = [t \in Tables |-> NewCopyTask]
    /\ \E T \in 1..MaxCommitCount :
         bulk = [t \in Tables |-> [NewBulkInsert EXCEPT !.commitCount = T]]
    /\ events = [t \in Tables |-> <<>>]
    /\ source = [t \in Tables |-> [rows |-> 0, schema |-> <<>>]]
    /\ faulty = [t \in Tables |-> t = 1]
    /\ target = [t \in Tables |-> TargetTable([c \in {"a"} |-> "int"], 0, {})]
    /\ hist = [t \in Tables |-> NewHist(target[t])]
    /\ fnIn = [fn |-> "BulkInsert"]
    /\ fnOut = [done |-> FALSE, inserts |-> 0, commitCalls |-> 0, rollbacks |-> 0,
                failedCalls |-> 0, failed |-> FALSE, lastErr |-> FALSE, last |-> "NewBulkInsert"]
    /\ eventChan = <<>>
    /\ mon = DetachedMonitor
    /\ ctxDone = TRUE
    /\ NoCallers

\* bi.Insert(ctx, row)
LoaderInsert ==
    /\ fnIn.fn = "BulkInsert"
    /\ fnOut.inserts < MaxInserts
    /\ \E fault \in InsertFaultsOf(bulk[1]) :
         LET r == BulkInsert_Insert(bulk[1], target[1], Row(fnOut.inserts + 1), fault)
         IN /\ r.err => fnOut.failedCalls < MaxFailedCalls
            /\ bulk' = [bulk EXCEPT ![1] = r.bi]
            /\ target' = [target EXCEPT ![1] = r.db]
            /\ fnOut' = [fnOut EXCEPT !.inserts = IF r.err THEN @ ELSE @ + 1,
                                      !.failedCalls = IF r.err THEN @ + 1 ELSE @,
                                      !.failed = @ \/ r.err, !.lastErr = r.err,
                                      !.last = "Insert"]
    /\ UNCHANGED <<tasks, parallel, schedPc, chunkNo, waitNo, waitResult, ct, source,
                   faulty, events, eventChan, hist, fnIn, schemaDefs, schemaDefLock, gsd, gsdHist, mon, ctxDone>>

\* bi.Commit(ctx), called by the user of the loader
LoaderCommit ==
    /\ fnIn.fn = "BulkInsert"
    /\ fnOut.commitCalls < MaxCommitCalls
    /\ \E fault \in CommitFaultsOf(bulk[1]) :
         LET r == BulkCommit(bulk[1], target[1], fault)
         IN /\ r.err => fnOut.failedCalls < MaxFailedCalls
            /\ bulk' = [bulk EXCEPT ![1] = r.bi]
            /\ target' = [target EXCEPT ![1] = r.db]
            /\ fnOut' = [fnOut EXCEPT !.commitCalls = @ + 1, !.failed = @ \/ r.err,
                                      !.failedCalls = IF r.err THEN @ + 1 ELSE @,
                                      !.lastErr = r.err, !.last = "Commit"]
    /\ UNCHANGED <<tasks, parallel, schedPc, chunkNo, waitNo, waitResult, ct, source,
                   faulty, events, eventChan, hist, fnIn, schemaDefs, schemaDefLock, gsd, gsdHist, mon, ctxDone>>

\* bi.Rollback(ctx): an error when bi.tx is nil or the transaction has ended
LoaderRollback ==
    /\ fnIn.fn = "BulkInsert"
    /\ fnOut.rollbacks < MaxRollbacks
    /\ target' = [target EXCEPT ![1] = BulkRollback(bulk[1], target[1])]
    /\ fnOut' = [fnOut EXCEPT !.rollbacks = @ + 1,
                              !.failed = @ \/ ~bulk[1].tx \/ ~target[1].txOpen,
                              !.lastErr = ~bulk[1].tx \/ ~target[1].txOpen,
                              !.last = "Rollback"]
    /\ UNCHANGED <<tasks, parallel, schedPc, chunkNo, waitNo, waitResult, ct, bulk,
                   source, faulty, events, eventChan, hist, fnIn, schemaDefs, schemaDefLock, gsd, gsdHist, mon, ctxDone>>

NextLoader == LoaderInsert \/ LoaderCommit \/ LoaderRollback

SpecLoader == InitLoader /\ [][NextLoader]_vars

(* ---------------- parseFilter on its own ---------------- *)
\* atomic expressions of the inputs: c = 1 and [d] <> 'v'
FilterAtoms ==
    {[column |-> <<99>>, bracketed |-> FALSE, operator |-> <<61>>, value |-> <<49>>,
      quoted |-> FALSE],
     [column |-> <<100>>, bracketed |-> TRUE, operator |-> <<60, 62>>, value |-> <<118>>,
      quoted |-> TRUE]}
\* connector tokens of the inputs, in several letter cases
FilterConnectors == {Str_AND, Str_or, Str_And, Str_oR}

FilterItems ==
    {[kind |-> "atom", atom |-> a] : a \in FilterAtoms}
      \cup {[kind |-> "connector", text |-> c] : c \in FilterConnectors}

\* the text of an atomic expression: column op value, separated by single spaces
AtomText(a) ==
    (IF a.bracketed THEN <<91>> \o a.column \o <<93>> ELSE a.column) \o Str_Space
        \o a.operator \o Str_Space
        \o (IF a.quoted THEN <<39>> \o a.value \o <<39>> ELSE a.value)

ItemText(item) == IF item.kind = "atom" THEN AtomText(item.atom) ELSE item.text

\* the filter text: the items separated by single spaces
FilterText(items) == Join([k \in 1..Len(items) |-> ItemText(items[k])], Str_Space)

\* any sequence of up to MaxItems atomic expressions and connector tokens
InitFilter ==
    /\ NoJob
    /\ NoCallers
    /\ \E n \in 0..MaxItems : \E items \in [1..n -> FilterItems] :
         fnIn = [fn |-> "parseFilter", items |-> items, text |-> FilterText(items)]
    /\ fnOut = [done |-> FALSE]

\* parseFilter(text) and, without an error, filter.String()
FilterStep ==
    /\ fnIn.fn = "parseFilter"
    /\ ~fnOut.done
    /\ LET f == parseFilter(fnIn.text)
       IN fnOut' = [done |-> TRUE, err |-> f.err, expressions |-> f.expressions,
                    operators |-> f.operators,
                    rendering |-> IF f.err THEN <<>> ELSE filterString(f)]
    /\ UNCHANGED <<tasks, parallel, schedPc, chunkNo, waitNo, waitResult, ct, bulk,
                   source, faulty, target, events, eventChan, hist, fnIn, schemaDefs, schemaDefLock, gsd, gsdHist, mon, ctxDone>>

NextFilter == FilterStep

SpecFilter == InitFilter /\ [][NextFilter]_vars

(* ---------------- chunkBy on its own ---------------- *)
\* any list of up to MaxListLen tables and any chunk size from 1 to MaxParallel
InitChunk ==
    /\ NoJob
    /\ NoCallers
    /\ \E n \in 0..MaxListLen : \E items \in [1..n -> Tables] : \E k \in 1..MaxParallel :
         fnIn = [fn |-> "chunkBy", items |-> items, chunkSize |-> k]
    /\ fnOut = [done |-> FALSE]

\* chunkBy(items, chunkSize)
ChunkStep ==
    /\ fnIn.fn = "chunkBy"
    /\ ~fnOut.done
    /\ fnOut' = [done |-> TRUE, chunks |-> chunkBy(fnIn.items, fnIn.chunkSize)]
    /\ UNCHANGED <<tasks, parallel, schedPc, chunkNo, waitNo, waitResult, ct, bulk,
                   source, faulty, target, events, eventChan, hist, fnIn, mon, ctxDone,
                   schemaDefs, schemaDefLock, gsd, gsdHist>>

NextChunk == ChunkStep

SpecChunk == InitChunk /\ [][NextChunk]_vars

(* ---------------- GetSchemaDefinition on its own ---------------- *)
\* the rows of INFORMATION_SCHEMA.COLUMNS for table t, in the order of the result
SchemaRows(t) ==
    IF t = 1 THEN <<[column |-> "a", dataType |-> "int"], [column |-> "b", dataType |-> "text"]>>
    ELSE <<[column |-> "a", dataType |-> "int"]>>

\* the schema of table t: every column mapped to its type
FullSchema(t) ==
    [c \in {SchemaRows(t)[k].column : k \in 1..Len(SchemaRows(t))} |->
        (CHOOSE r \in SeqToSet(SchemaRows(t)) : r.column = c).dataType]

\* a caller of GetSchemaDefinition(ctx, table) before db.schemaDefLock.Lock()
\* (entryAtReturn: whether the cache held the table when the call returned)
NewCaller(table) ==
    [pc |-> "lock", table |-> table, schemaMap |-> <<>>, cursor |-> 0, err |-> FALSE,
     result |-> <<>>, entryAtReturn |-> FALSE]

\* concurrent callers on one store with an empty cache, each for table 1 or 2
InitCache ==
    /\ NoJob
    /\ schemaDefs = <<>>
    /\ schemaDefLock = 0
    /\ \E n \in 1..MaxCallers : \E tb \in [1..n -> {1, 2}] :
         gsd = [c \in 1..n |-> NewCaller(tb[c])]
    /\ gsdHist = [t \in Tables |-> [queried |-> 0, stored |-> 0]]
    /\ fnIn = [fn |-> "GetSchemaDefinition"]
    /\ fnOut = [done |-> FALSE]

\* db.schemaDefLock.Lock()
GsdLock(c) ==
    /\ gsd[c].pc = "lock"
    /\ schemaDefLock = 0
    /\ schemaDefLock' = c
    /\ gsd' = [gsd EXCEPT ![c].pc = "lookup"]
    /\ UNCHANGED <<schemaDefs, gsdHist>>

\* if _, ok := db.schemaDefs[table.String()]; !ok
GsdLookup(c) ==
    /\ gsd[c].pc = "lookup"
    /\ gsd' = [gsd EXCEPT ![c].pc = IF gsd[c].table \in DOMAIN schemaDefs
                                    THEN "return" ELSE "query"]
    /\ UNCHANGED <<schemaDefs, schemaDefLock, gsdHist>>

\* return nil, err, and the deferred Unlock
GsdFail(c) ==
    /\ gsd' = [gsd EXCEPT ![c].pc = "done", ![c].err = TRUE,
                          ![c].entryAtReturn = gsd[c].table \in DOMAIN schemaDefs]
    /\ schemaDefLock' = 0
    /\ UNCHANGED schemaDefs

\* db.db.QueryContext(ctx, query)
GsdQuery(c) ==
    /\ gsd[c].pc = "query"
    /\ \/ /\ gsd' = [gsd EXCEPT ![c].pc = "next"]
          /\ gsdHist' = [gsdHist EXCEPT ![gsd[c].table].queried = @ + 1]
          /\ UNCHANGED <<schemaDefs, schemaDefLock>>
       \/ /\ GsdFail(c)
          /\ UNCHANGED gsdHist

\* db.schemaDefs[table.String()] = schemaMap, after the loop
GsdStore(c) ==
    /\ schemaDefs' = MapPut(schemaDefs, gsd[c].table, gsd[c].schemaMap)
    /\ gsd' = [gsd EXCEPT ![c].pc = "return"]
    /\ gsdHist' = [gsdHist EXCEPT ![gsd[c].table].stored = @ + 1]
    /\ UNCHANGED schemaDefLock

\* for rows.Next() { rows.Scan(&column, &dataType); schemaMap[column] = dataType }:
\* the next row, a Scan error, the end of the rows, or rows.Next() returning false
\* on a driver error, which ends the loop like the end of the rows (rows.Err() is
\* not consulted)
GsdNext(c) ==
    /\ gsd[c].pc = "next"
    /\ LET rows == SchemaRows(gsd[c].table)
       IN \/ /\ gsd[c].cursor < Len(rows)
             /\ LET r == rows[gsd[c].cursor + 1]
                IN gsd' = [gsd EXCEPT ![c].cursor = @ + 1,
                                      ![c].schemaMap = MapPut(@, r.column, r.dataType)]
             /\ UNCHANGED <<schemaDefs, schemaDefLock, gsdHist>>
          \/ /\ gsd[c].cursor < Len(rows)
             /\ GsdFail(c)
             /\ UNCHANGED gsdHist
          \/ /\ gsd[c].cursor < Len(rows)
             /\ GsdStore(c)
          \/ /\ gsd[c].cursor = Len(rows)
             /\ GsdStore(c)

\* schema, _ := db.schemaDefs[table.String()]; return schema, nil, and the
\* deferred Unlock
GsdReturn(c) ==
    /\ gsd[c].pc = "return"
    /\ gsd' = [gsd EXCEPT ![c].pc = "done", ![c].result = schemaDefs[gsd[c].table],
                          ![c].entryAtReturn = TRUE]
    /\ schemaDefLock' = 0
    /\ UNCHANGED <<schemaDefs, gsdHist>>

GetSchemaDefinition(c) ==
    /\ fnIn.fn = "GetSchemaDefinition"
    /\ \/ GsdLock(c)
       \/ GsdLookup(c)
       \/ GsdQuery(c)
       \/ GsdNext(c)
       \/ GsdReturn(c)
    /\ UNCHANGED <<tasks, parallel, schedPc, chunkNo, waitNo, waitResult, ct, bulk,
                   source, faulty, target, events, eventChan, hist, fnIn, fnOut, mon,
                   ctxDone>>

NextCache == \E c \in DOMAIN gsd : GetSchemaDefinition(c)

SpecCache == InitCache /\ [][NextCache]_vars

(* ---------------- properties ---------------- *)
Emitted(t, e) == \E k \in 1..Len(events[t]) : events[t][k] = e
Started(t) == ct[t].runPc # "idle"
\* a task is running from its start until both stages have called wg.Done()
Running(t) == Started(t) /\ ct[t].wg > 0
Completed(t) == Started(t) /\ ct[t].wg = 0
\* the run ended with task-finished and without task-failed
Succeeded(t) == Completed(t) /\ Emitted(t, "Finished") /\ ~Emitted(t, "Error")
SourceRows(t) == [k \in 1..source[t].rows |-> Row(k)]
FksRestoredEnabled(t) ==
    /\ FkNames(target[t].fks) = FkNames(hist[t].fks0)
    /\ \A fk \in target[t].fks : ~fk.NoCheck
TargetUntouched(t) ==
    /\ target[t].rows = hist[t].rows0
    /\ target[t].fks = hist[t].fks0
    /\ hist[t].drops = 0
    /\ hist[t].truncates = 0

\* C1 as stated: for any N, after a successful run without a failing store call the
\* target holds exactly the N source rows and the foreign keys referencing it are
\* those of before the copy, by name, all enabled
C1_AnyN ==
    \A t \in JobTables :
        (Succeeded(t) /\ ~hist[t].storeFailed)
            => (target[t].rows = SourceRows(t) /\ FksRestoredEnabled(t))

\* C1 amended: the same for a source table with N >= 1 rows
C1_CopyReplacesRows ==
    \A t \in JobTables :
        (Succeeded(t) /\ ~hist[t].storeFailed /\ source[t].rows >= 1)
            => (target[t].rows = SourceRows(t) /\ FksRestoredEnabled(t))

\* C1 witness: a successful copy of more rows than one transaction holds, over old rows and
\* over two foreign keys of which one was disabled
C1_Witness ==
    /\ Succeeded(1) /\ ~hist[1].storeFailed
    /\ source[1].rows > commitCount
    /\ hist[1].rows0 # <<>>
    /\ Cardinality(hist[1].fks0) >= 2
    /\ \E fk \in hist[1].fks0 : fk.NoCheck

\* position (from 1) -> number of its chunk (from 0), for chunk size k
ChunkIndex(pos, k) == (pos - 1) \div k

\* C2: at most K tasks are running, and the task at position i + K is not started
\* before every task of the chunk of position i has completed both stages
C2_ChunkBarrier ==
    /\ Cardinality({t \in JobTables : Running(t)}) <= parallel
    /\ \A i \in 1..Len(tasks) :
         (i + parallel <= Len(tasks) /\ Started(tasks[i + parallel]))
            => \A j \in 1..Len(tasks) :
                 ChunkIndex(j, parallel) = ChunkIndex(i, parallel)
                    => ct[tasks[j]].wg = 0

\* C2 witness: a task of the second chunk runs, K >= 2, after a task of the first chunk failed
C2_Witness ==
    /\ parallel >= 2
    /\ Len(tasks) > parallel
    /\ Running(tasks[parallel + 1])
    /\ \E j \in 1..parallel : Emitted(tasks[j], "Error")

\* C3: a started task whose stages have not both completed can always take a step
\* (so that, its goroutines being scheduled, it completes and Wait returns)
C3_RunningTaskCanStep ==
    \A t \in JobTables : Running(t) => ENABLED TaskStep(t)

\* C4: Wait returns an error exactly when a stage recorded one
C4_WaitReturnsRecordedError ==
    \A t \in JobTables :
        waitResult[t] # "none" => (waitResult[t] = "error" <=> hist[t].stageErr)

\* C5: a task never emits both task-failed and task-finished, task-finished is
\* emitted only when no stage failed, and a completed task has emitted one of them
C5_FinishedXorFailed ==
    \A t \in JobTables :
        /\ ~(Emitted(t, "Error") /\ Emitted(t, "Finished"))
        /\ Emitted(t, "Finished") => ~hist[t].stageErr
        /\ Completed(t) => (Emitted(t, "Error") \/ Emitted(t, "Finished"))

\* C6: after a failed row fetch or insert, no row the loader had accepted since its
\* last commit is in the target table
C6_FailureRollsBack ==
    \A t \in JobTables :
        hist[t].midFail =>
            SeqToSet(hist[t].pendingAtFail) \cap SeqToSet(target[t].rows) = {}

\* C7: while the source has yielded no row (so for a source that yields none at
\* all), no foreign key is dropped, the table is not truncated, and the target's
\* rows and foreign keys are those of before the task
C7_EmptySourceUntouched ==
    \A t \in JobTables : ct[t].cursor = 0 => TargetUntouched(t)

\* C7 witness: a finished run over an empty source, the target holding rows and foreign keys
C7_Witness ==
    /\ source[1].rows = 0
    /\ Completed(1) /\ Emitted(1, "Finished")
    /\ hist[1].rows0 # <<>>
    /\ hist[1].fks0 # {}
    /\ TargetUntouched(1)

\* C8: when the source and target schemas differ, no truncate, no foreign-key drop
\* and no insert happens
C8_MismatchNotDestructive ==
    \A t \in JobTables :
        ~Compatible(source[t].schema, target[t].schema)
            => (TargetUntouched(t) /\ hist[t].inserted = <<>>)

\* C8 witness: a run over a non-empty source whose schema has the target's columns with
\* another type, ended by the comparison without a failing store call
C8_Witness ==
    /\ ~Compatible(source[1].schema, target[1].schema)
    /\ DOMAIN source[1].schema = DOMAIN target[1].schema
    /\ source[1].rows > 0
    /\ hist[1].rows0 # <<>>
    /\ Completed(1)
    /\ hist[1].stageErr /\ ~hist[1].storeFailed

\* C9: compareSchemas(A, B) = compareSchemas(B, A)
C9_Symmetric == fnOut.done => (fnOut.ab = fnOut.ba)

\* C10: compareSchemas(A, B) iff A and B have the same columns and types
C10_IffCompatible == fnOut.done => (fnOut.ab <=> Compatible(fnIn.A, fnIn.B))

\* the first n rows handed to a loader used on its own
LoaderRows(n) == [k \in 1..n |-> Row(k)]

\* C11: N successful inserts into a fresh loader with threshold T followed by one
\* final commit give exactly ceil(N/T) committed transactions, each but the last of
\* exactly T rows, the last of the remaining rows, holding the N rows in order
C11_CeilTransactions ==
    (fnIn.fn = "BulkInsert" /\ ~fnOut.failed /\ fnOut.last = "Commit"
        /\ fnOut.commitCalls = 1)
      => LET N == fnOut.inserts
             T == bulk[1].commitCount
             txs == target[1].txs
         IN /\ Len(txs) = (N + T - 1) \div T
            /\ \A k \in 1..(Len(txs) - 1) : Len(txs[k]) = T
            /\ Len(txs) > 0 => Len(txs[Len(txs)]) = N - T * (Len(txs) - 1)
            /\ (N = T + 1) => (Len(txs) = 2 /\ Len(txs[1]) = T)
            /\ target[1].rows = LoaderRows(N)
            /\ target[1].pending = <<>>
            /\ ~target[1].txOpen

\* C11 witness: T + 1 rows with T >= 2, then the final commit
C11_Witness ==
    /\ fnIn.fn = "BulkInsert" /\ ~fnOut.failed /\ fnOut.last = "Commit"
    /\ fnOut.commitCalls = 1
    /\ bulk[1].commitCount >= 2
    /\ fnOut.inserts = bulk[1].commitCount + 1
    /\ Len(target[1].txs) = 2

TerminalKinds == {"Finished", "Error"}
\* the event consumed last was for a table without a reporter
LastHadNoReporter ==
    /\ mon.last.kind \in {"Progress", "Count", "Finished", "Error"}
    /\ TableRefString(mon.last.Table) \notin DOMAIN mon.monitors

\* C13: the run loop exits on cancellation after exactly one more render; it exits
\* on a task-finished or task-failed event that leaves every registered table done
\* or errored, after stopping the tick and then rendering exactly once; while it
\* runs, the cancel case is ready once the context is cancelled, and the event
\* consumed last is not such a terminal event
C13_MonitorTerminates ==
    /\ mon.exit = "cancel"
         => (ctxDone /\ mon.pc = "exited" /\ mon.result = "nil" /\ mon.exitRenders = 1)
    /\ mon.exit = "alldone"
         => /\ mon.pc = "exited" /\ mon.result = "nil"
            /\ mon.last.kind \in TerminalKinds
            /\ ~anyRunning(mon.monitors)
            /\ mon.exitRenders = 1
            /\ mon.tickerStopped /\ mon.tickStoppedAtExitRender
    /\ mon.pc = "run"
         => /\ mon.exit = "none" /\ mon.exitRenders = 0 /\ ~mon.tickerStopped
            /\ ~(mon.last.kind \in TerminalKinds /\ ~LastHadNoReporter
                    /\ ~anyRunning(mon.monitors))
            /\ ctxDone => ENABLED MonitorCancel
    /\ mon.pc = "exited" => (~ENABLED MonitorStep /\ mon.exit \in {"cancel", "alldone", "error"})

\* C13 witness: the all-done exit with two tables, one finished and one failed
C13_Witness ==
    /\ mon.exit = "alldone"
    /\ Cardinality(DOMAIN mon.monitors) = 2
    /\ \E k \in DOMAIN mon.monitors : mon.monitors[k].err
    /\ \E k \in DOMAIN mon.monitors : ~mon.monitors[k].err
    /\ ~ctxDone

\* C14: a step that consumes a progress-delta, row-count-known, task-finished or
\* task-failed event for a table without a reporter makes Run return an error and
\* leaves the reporters as they were
C14_MissingReporterStops ==
    [][(/\ mon.pc = "run"
        /\ eventChan # <<>>
        /\ eventChan' = Tail(eventChan)
        /\ Head(eventChan).kind \in {"Progress", "Count", "Finished", "Error"}
        /\ TableRefString(Head(eventChan).Table) \notin DOMAIN mon.monitors)
          => (/\ mon'.pc = "exited"
              /\ mon'.result = "error"
              /\ mon'.monitors = mon.monitors)]_vars

\* C14 witness: Run has returned the error for an event of a table without a reporter
\* while another table has one
C14_Witness ==
    /\ mon.pc = "exited" /\ mon.result = "error"
    /\ LastHadNoReporter
    /\ DOMAIN mon.monitors # {}

\* keys is in strictly ascending bytewise order
Ascending(keys) == \A i \in 1..(Len(keys) - 1) : StringLess(keys[i], keys[i + 1])

\* frame lists exactly the reporters of monitors, header and bars, in ascending order
FrameLists(frame, monitors) ==
    /\ Ascending(frame.header)
    /\ SeqToSet(frame.header) = DOMAIN monitors
    /\ Len(frame.header) = Cardinality(DOMAIN monitors)
    /\ Len(frame.bars) = Len(frame.header)
    /\ \A k \in 1..Len(frame.header) : frame.bars[k].label = frame.header[k]

\* C15: in interactive mode the frame a render writes in the current state lists
\* every registered table, in the header and as one bar each, in ascending lexical
\* order of the quoted identifiers; the frame on screen is in that order too
C15_SortedRender ==
    (~mon.ci /\ mon.pc # "detached")
      => /\ FrameLists(render(mon).w.frame, mon.monitors)
         /\ mon.w.painted
              => /\ Ascending(mon.w.frame.header)
                 /\ SeqToSet(mon.w.frame.header) \subseteq DOMAIN mon.monitors
                 /\ Len(mon.w.frame.bars) = Len(mon.w.frame.header)
                 /\ \A k \in 1..Len(mon.w.frame.header) :
                      mon.w.frame.bars[k].label = mon.w.frame.header[k]

\* C15 witness: the frame on screen after task-started for "t" and then for "t2":
\* [dbo].[t2] before [dbo].[t]
C15_Witness ==
    /\ ~mon.ci /\ mon.w.painted
    /\ mon.last = Event("Started", TableRefOf(2), 0)
    /\ mon.w.frame.header = <<TableRefString(TableRefOf(2)), TableRefString(TableRefOf(1))>>
    /\ mon.w.frame.cleared > 0

\* the counts on the lines written for key, in order
RECURSIVE CountsOf(_, _)
CountsOf(lines, key) ==
    IF lines = <<>> THEN <<>>
    ELSE (IF Head(lines).key = key THEN <<Head(lines).copied>> ELSE <<>>)
            \o CountsOf(Tail(lines), key)

IsPrefix(a, b) == Len(a) <= Len(b) /\ SubSeq(b, 1, Len(a)) = a

\* C16: in ci mode the counts on the lines written for one table are strictly
\* increasing and the last of them is the count remembered for the table; every
\* step only appends to the lines written and nothing is repainted
C16_CiMonotone ==
    /\ [](mon.ci =>
            /\ ~mon.w.painted
            /\ \A key \in DOMAIN mon.monitors :
                 LET counts == CountsOf(mon.w.lines, key)
                 IN /\ \A i \in 1..(Len(counts) - 1) : counts[i] < counts[i + 1]
                    /\ counts # <<>> =>
                         /\ key \in DOMAIN mon.lastRender.rowsCopied
                         /\ counts[Len(counts)] = mon.lastRender.rowsCopied[key])
    /\ [][mon.ci => IsPrefix(mon.w.lines, mon'.w.lines)]_vars

\* C16 witness: two lines written for one table while another table has a reporter
C16_Witness ==
    /\ mon.ci
    /\ \E key \in DOMAIN mon.monitors : Len(CountsOf(mon.w.lines, key)) >= 2
    /\ Cardinality(DOMAIN mon.monitors) >= 2

\* C12: a task B whose own store calls do not fail is never stopped while another
\* task of its chunk has failed: as long as B has not completed, a step of B is
\* possible or the Monitor is receiving from a non-empty eventChan (which makes
\* room for B's next event); and once B has completed it has copied all its rows
\* and emitted task-finished and no task-failed
C12_FailureIsolated ==
    \A A \in JobTables, B \in JobTables :
        (A # B /\ ~faulty[B] /\ Emitted(A, "Error"))
          => /\ Running(B) => (ENABLED TaskStep(B) \/ ENABLED MonitorReceive)
             /\ Completed(B) => (/\ target[B].rows = SourceRows(B)
                                 /\ Emitted(B, "Finished")
                                 /\ ~Emitted(B, "Error"))

\* n >= 1 atomic expressions separated by n - 1 connector tokens
WellFormedItems(items) ==
    /\ Len(items) % 2 = 1
    /\ \A k \in 1..Len(items) :
         items[k].kind = (IF k % 2 = 1 THEN "atom" ELSE "connector")

\* ( [column] OP 'value' ) of an atomic expression of the input
ExpectedAtom(a) ==
    <<40, 32, 91>> \o a.column \o <<93, 32>> \o ToUpper(a.operator)
        \o <<32, 39>> \o a.value \o <<39, 32, 41>>

\* the atoms in input order interleaved with the upper-cased connectors, each
\* surrounded by single spaces
ExpectedRendering(items) ==
    Join([k \in 1..Len(items) |->
            IF items[k].kind = "atom" THEN ExpectedAtom(items[k].atom)
            ELSE ToUpper(items[k].text)],
         Str_Space)

\* C17: a text of n >= 1 atomic expressions separated by n - 1 connectors AND/OR in
\* any letter case is parsed without error and renders as the n atoms interleaved
\* with the upper-cased connectors
C17_ParsesAndRenders ==
    (fnIn.fn = "parseFilter" /\ fnOut.done /\ WellFormedItems(fnIn.items))
      => (~fnOut.err /\ fnOut.rendering = ExpectedRendering(fnIn.items))

\* C18: an accepted non-empty filter text gives one connector less than expressions
\* and a rendering that ends with the closing parenthesis of the last expression
C18_NoTrailingSeparator ==
    (fnIn.fn = "parseFilter" /\ fnOut.done /\ ~fnOut.err /\ fnIn.text # <<>>)
      => /\ Len(fnOut.operators) = Len(fnOut.expressions) - 1
         /\ fnOut.rendering # <<>>
         /\ fnOut.rendering[Len(fnOut.rendering)] = 41

\* the positions in the writer's call history of table t of the calls of op
OpsOf(t, op) == {k \in 1..Len(hist[t].ops) : hist[t].ops[k].op = op}
SetupOps == {"GetReferencedForeignKeys", "DropReferencedForeignKeys", "EmptyTable"}

\* C19: the writer fetches the foreign keys, drops them and truncates the table at
\* most once per run, in that order, each while it holds the first row received and
\* has inserted none; every insert comes after the truncate; foreign keys are
\* re-added only directly after a successful final commit, after the last insert and
\* before task-finished is sent
C19_SetupOnFirstRowOnly ==
    \A t \in JobTables :
        LET ops == hist[t].ops
        IN /\ \A op \in SetupOps : Cardinality(OpsOf(t, op)) <= 1
           /\ \A k \in 1..Len(ops) :
                /\ ops[k].op \in SetupOps => (ops[k].i = 0 /\ ops[k].row = Row(1))
                /\ ops[k].op = "GetReferencedForeignKeys" => k = 1
                /\ ops[k].op = "DropReferencedForeignKeys"
                     => (k = 2 /\ ops[1].op = "GetReferencedForeignKeys" /\ ops[1].ok)
                /\ ops[k].op = "EmptyTable"
                     => (k = 3 /\ ops[2].op = "DropReferencedForeignKeys" /\ ops[2].ok)
                /\ ops[k].op = "Insert"
                     => (k > 3 /\ ops[3].op = "EmptyTable" /\ ops[3].ok)
                /\ ops[k].op = "AddForeignKeys"
                     => /\ k > 1 /\ ops[k - 1].op = "Commit" /\ ops[k - 1].ok
                        /\ k = Len(ops)
                        /\ ~ops[k].finished
                        /\ OpsOf(t, "AddForeignKeys") = {k}
                        /\ OpsOf(t, "Commit") = {k - 1}
           /\ (hist[t].drops > 0 \/ hist[t].truncates > 0) => ct[t].row = Row(1) \/ ct[t].i > 0

\* C19 witness: a finished run of more than one row that dropped and re-added two
\* foreign keys
C19_Witness ==
    /\ Succeeded(1) /\ ~hist[1].storeFailed
    /\ source[1].rows >= 2
    /\ Cardinality(hist[1].fks0) = 2
    /\ OpsOf(1, "AddForeignKeys") # {}
    /\ Cardinality(OpsOf(1, "Insert")) = source[1].rows

\* the last call of the writer of table t was an insert that failed
InsertFailedLast(t) ==
    /\ hist[t].ops # <<>>
    /\ hist[t].ops[Len(hist[t].ops)].op = "Insert"
    /\ ~hist[t].ops[Len(hist[t].ops)].ok

\* C20: after a failed insert the writer has returned with task-failed sent and
\* without task-finished, it makes no further call (no add-foreign-key call in
\* particular), and no foreign key that referenced the table before the run is in
\* the store
C20_InsertFailureLeavesFksDropped ==
    \A t \in JobTables :
        (\E k \in OpsOf(t, "Insert") : ~hist[t].ops[k].ok)
          => /\ InsertFailedLast(t)
             /\ ct[t].wrPc = "done"
             /\ Emitted(t, "Error") /\ ~Emitted(t, "Finished")
             /\ OpsOf(t, "AddForeignKeys") = {}
             /\ hist[t].drops = Cardinality(hist[t].fks0)
             /\ target[t].fks = {}

\* C20 witness: the second insert failed after two foreign keys were dropped, and
\* both stages have returned
C20_Witness ==
    /\ InsertFailedLast(1)
    /\ Cardinality(OpsOf(1, "Insert")) = 2
    /\ Cardinality(hist[1].fks0) = 2
    /\ Completed(1)

\* the scheduler is in task.Wait() of table t
WaitingFor(t) == schedPc = "wait" /\ Chunks[chunkNo][waitNo] = t

\* C21: when the fetch of the target schema has failed the task has emitted
\* task-started then task-failed and nothing else, both stages are signalled as
\* complete (a Wait for the task can return), neither stage has started, no task
\* step is left, and no row was read or inserted, nothing truncated, no foreign key
\* fetched, dropped or added
C21_TargetSchemaFailureStopsTask ==
    \A t \in JobTables :
        hist[t].targetSchemaFailed
          => /\ events[t] = <<"Started", "Error">>
             /\ ct[t].wg = 0
             /\ WaitingFor(t) => ENABLED SchedWait
             /\ ct[t].rdPc = "idle" /\ ct[t].wrPc = "idle"
             /\ ~ENABLED TaskStep(t)
             /\ ct[t].cursor = 0 /\ ct[t].dataChan = <<>>
             /\ hist[t].ops = <<>> /\ hist[t].inserted = <<>>
             /\ TargetUntouched(t)
             /\ target[t].pending = <<>> /\ ~target[t].txOpen

\* C21 witness: the target schema fetch failed for a table with source rows, old
\* target rows and foreign keys, and Wait has returned
C21_Witness ==
    /\ hist[1].targetSchemaFailed
    /\ waitResult[1] # "none"
    /\ source[1].rows > 0
    /\ hist[1].rows0 # <<>>
    /\ hist[1].fks0 # {}

C23_OneOpenTransaction ==
    fnIn.fn = "BulkInsert"
      => /\ OpenTransactions(target[1]) <= 1
         /\ (fnOut.last = "Insert" /\ ~fnOut.lastErr)
              => /\ bulk[1].count = Len(target[1].pending)
                 /\ bulk[1].count < bulk[1].commitCount

\* C24: a task sends task-started first and once; every other event waiting in
\* eventChan is for a table that has its reporter or whose task-started event is
\* ahead of it in the channel, and a waiting task-started event is for a table
\* without a reporter; so Run never returns a missing-reporter or duplicate-reporter
\* error
C24_StartedFirst ==
    mon.pc # "detached"
      => /\ mon.result # "error"
         /\ \A t \in JobTables :
              /\ events[t] # <<>> => events[t][1] = "Started"
              /\ \A k \in 2..Len(events[t]) : events[t][k] # "Started"
         /\ \A k \in 1..Len(eventChan) :
              LET e == eventChan[k]
                  registered == TableRefString(e.Table) \in DOMAIN mon.monitors
                  ahead == {j \in 1..(k - 1) : eventChan[j].Table = e.Table}
              IN IF e.kind = "Started" THEN ~registered /\ ahead = {}
                 ELSE registered \/ \E j \in ahead : eventChan[j].kind = "Started"
         /\ mon.last.kind \notin {"none", "Started"}
              => TableRefString(mon.last.Table) \in DOMAIN mon.monitors

\* C24 witness: the Monitor, running with both reporters, has consumed a
\* progress-delta event while events of both tables wait in eventChan
C24_Witness ==
    /\ mon.pc = "run"
    /\ Cardinality(DOMAIN mon.monitors) = 2
    /\ mon.last.kind = "Progress"
    /\ \E j, k \in 1..Len(eventChan) : eventChan[j].Table # eventChan[k].Table

\* the callers of GetSchemaDefinition for table t that have returned without error
ReturnedOk(t) == {c \in DOMAIN gsd : gsd[c].table = t /\ gsd[c].pc = "done" /\ ~gsd[c].err}

\* C25: for one store and each table, under any interleaving of the callers, the
\* schema query is run to the point of filling the cache at most once; the callers
\* that return without error all get the same mapping, which holds every column of
\* the table with its type; and a call that returns an error leaves the cache
\* without an entry for the table
C25_PopulateOnce ==
    \A t \in Tables :
        /\ gsdHist[t].stored <= 1
        /\ \A c \in ReturnedOk(t) :
             /\ gsd[c].result = FullSchema(t)
             /\ \A d \in ReturnedOk(t) : gsd[d].result = gsd[c].result
        /\ \A c \in DOMAIN gsd :
             (gsd[c].table = t /\ gsd[c].pc = "done" /\ gsd[c].err)
                => ~gsd[c].entryAtReturn

RECURSIVE Flatten(_)
\* the chunks concatenated
Flatten(chunks) == IF chunks = <<>> THEN <<>> ELSE Head(chunks) \o Flatten(Tail(chunks))

\* C26: the chunks concatenate back to the list in its order; every chunk but the
\* last has exactly K elements; the last chunk of a non-empty list has between 1
\* and K elements; and a table that occurs once in the list is in exactly one chunk
C26_ChunkPartition ==
    (fnIn.fn = "chunkBy" /\ fnOut.done)
      => LET chunks == fnOut.chunks
             n == Len(chunks)
             K == fnIn.chunkSize
         IN /\ n >= 1
            /\ Flatten(chunks) = fnIn.items
            /\ \A k \in 1..(n - 1) : Len(chunks[k]) = K
            /\ fnIn.items # <<>> => (Len(chunks[n]) >= 1 /\ Len(chunks[n]) <= K)
            /\ \A x \in SeqToSet(fnIn.items) :
                 Cardinality({i \in 1..Len(fnIn.items) : fnIn.items[i] = x}) = 1
                    => Cardinality({k \in 1..n : x \in SeqToSet(chunks[k])}) = 1

\* C26 witness: a list of distinct tables, longer than K >= 2 and not a multiple of
\* K, is partitioned into full chunks and a smaller last one
C26_Witness ==
    /\ fnIn.fn = "chunkBy" /\ fnOut.done
    /\ fnIn.chunkSize >= 2
    /\ Len(fnIn.items) > fnIn.chunkSize
    /\ Len(fnIn.items) % fnIn.chunkSize # 0
    /\ Cardinality(SeqToSet(fnIn.items)) = Len(fnIn.items)
    /\ Len(fnOut.chunks) = 2
    /\ Len(fnOut.chunks[2]) < fnIn.chunkSize

\* the task of table t has sent task-finished or task-failed
Terminal(t) == Emitted(t, "Finished") \/ Emitted(t, "Error")

\* C27: when the run loop of the Monitor has exited for another reason than
\* cancellation, every table of the job has sent task-finished or task-failed
C27_ExitOnlyWhenJobDone ==
    (mon.pc = "exited" /\ mon.exit # "cancel") => \A t \in JobTables : Terminal(t)

\* a store call of the job has failed
SomeStoreCallFailed == \E t \in JobTables : hist[t].storeFailed

\* C28: under fair scheduling a job in which no store call fails reaches the state
\* where every table has sent task-finished and Copy has left its last Wait: no
\* stage stays blocked in a send to eventChan
C28_JobTerminates ==
    <>(SomeStoreCallFailed
         \/ (schedPc = "done" /\ \A t \in JobTables : Emitted(t, "Finished")))

\* the number of progress-delta events the task of table t has sent
ProgressSent(t) == Cardinality({k \in 1..Len(events[t]) : events[t][k] = "Progress"})

\* C29: when Run has returned from the cancellation case, no event is left in
\* eventChan, and for every table of the job the reporter holds as many copied rows
\* as progress-delta events were sent for it and is marked done if the table has
\* sent task-finished or task-failed
C29_CancelAfterDrain ==
    (mon.pc = "exited" /\ mon.exit = "cancel")
      => /\ eventChan = <<>>
         /\ \A t \in JobTables :
              LET key == TableRefString(TableRefOf(t))
              IN /\ key \in DOMAIN mon.monitors
                 /\ mon.monitors[key].RowsCopied = ProgressSent(t)
                 /\ Terminal(t) => mon.monitors[key].done

\* the fields of a constraint that identify it: all but its enforcement state
ConstraintFields(fk) ==
    [Name |-> fk.Name, Schema |-> fk.Schema, Table |-> fk.Table, Column |-> fk.Column,
     ReferencedSchema |-> fk.ReferencedSchema, ReferencedTable |-> fk.ReferencedTable,
     ReferencedColumn |-> fk.ReferencedColumn]

\* C30: after a load that succeeded without a failing store call, the constraints
\* referencing the table are, field by field, those read before they were dropped,
\* each dropped once and added back by the one AddForeignKeys call
C30_FksReAddedAsRead ==
    \A t \in JobTables :
        (Succeeded(t) /\ ~hist[t].storeFailed /\ source[t].rows >= 1)
          => /\ {ConstraintFields(fk) : fk \in target[t].fks}
                    = {ConstraintFields(fk) : fk \in hist[t].fks0}
             /\ Cardinality(target[t].fks) = Cardinality(hist[t].fks0)
             /\ hist[t].drops = Cardinality(hist[t].fks0)
             /\ Cardinality(OpsOf(t, "AddForeignKeys")) <= 1

====
